---- MODULE Spec2Model ----
(***************************************************************************)
(* The agent sandboxing subsystem of the game-ai-platform repository:      *)
(*   submissions/agent_builder.py  (build_from_zip and its helpers),       *)
(*   submissions/agent_runner.py   (run_agent, start_agent_container),     *)
(*   submissions/agent_manager.py  (image and container lifecycle).        *)
(*                                                                         *)
(* Strings whose characters matter (file names, paths, file contents, the  *)
(* byte stream fed to SHA-256) are sequences of one-character strings.     *)
(* The container engine (docker) and the python standard library are the   *)
(* environment: they are modelled by what they do.                         *)
(***************************************************************************)
EXTENDS Integers, Sequences, FiniteSets, TLC

VARIABLES
    deploy,      \* which operator-controlled files exist beside the code
    bpc,         \* build_from_zip: position of the call
    bargs,       \* build_from_zip: arguments of the call in progress
    btmp,        \* build_from_zip: name of the TemporaryDirectory
    tmpdirs,     \* temporary build directories that exist on disk
    bctx,        \* build_from_zip: file tree of the build context
    disk,        \* absolute paths of the files and directories below the build directories
    bentry,      \* build_from_zip: entry_file
    bres,        \* build_from_zip: what the call returned or raised
    engineCalls, \* number of client.images.build invocations of the call
    peer,        \* a second build_from_zip call, made while the first one runs
    worker,      \* the build worker: its queue, its job and the submissions
    images,      \* engine image store: set of image records
    tags,        \* engine image store: tag -> image id
    clock,       \* datetime.now(): strictly increasing
    builds,      \* results of the successful build_from_zip calls so far
    mop,         \* the last agent_manager operation and what it returned
    containers,  \* engine container namespace: set of container records
    nextCid,     \* next container id the engine hands out
    rpc,         \* run_agent: position of the call
    rimg,        \* run_agent: image_ref
    renv,        \* run_agent: extra_env
    rcid,        \* run_agent: id of the container it created (0: none)
    rflag,       \* run_agent: timeout_flag
    rexit,       \* run_agent: exit_code, <<code>> (<<>>: None)
    rlogs,       \* run_agent: logs
    rres,        \* run_agent: what the call returned or raised
    rhist,       \* run_agent: how the wait and the removal of the call ended
    sres         \* start_agent_container: what the last call returned or raised

vars == <<deploy, bpc, bargs, btmp, tmpdirs, bctx, disk, bentry, bres,
          engineCalls, peer, worker, images, tags, clock, builds, mop, containers, nextCid,
          rpc, rimg, renv, rcid, rflag, rexit, rlogs, rres, rhist, sres>>

buildVars == <<bpc, bargs, btmp, tmpdirs, bctx, disk, bentry, bres, engineCalls, peer,
               worker>>
imageVars == <<images, tags, clock, builds>>
runVars   == <<rpc, rimg, renv, rcid, rflag, rexit, rlogs, rres, rhist>>
contVars  == <<containers, nextCid>>

-----------------------------------------------------------------------------
(* Bounds of the model. *)

MaxMembers == 2      \* entries of a generated archive
MaxBuilds == 2       \* build_from_zip calls in a run of the image store
MaxContainers == 2   \* containers the engine creates in a run
MaxOutput == 7       \* output of a container, in MiB

-----------------------------------------------------------------------------
(* Character strings. *)

\* The characters the model uses, in ASCII order (python compares str by code point).
AsciiOrder ==
    <<".", "/", "_", "a", "b", "c", "d", "e", "f", "g", "h", "i", "j", "k", "l", "m",
      "n", "o", "p", "q", "r", "s", "t", "u", "v", "w", "x", "y", "z">>

Code(c) == CHOOSE i \in 1..Len(AsciiOrder) : AsciiOrder[i] = c

\* str.startswith
startswith(s, p) == Len(p) <= Len(s) /\ SubSeq(s, 1, Len(p)) = p

\* str.endswith
endswith(s, x) == Len(x) <= Len(s) /\ SubSeq(s, Len(s) - Len(x) + 1, Len(s)) = x

\* python's str comparison a < b
RECURSIVE StrLess(_, _)
StrLess(a, b) ==
    IF b = <<>> THEN FALSE
    ELSE IF a = <<>> THEN TRUE
    ELSE IF Head(a) # Head(b) THEN Code(Head(a)) < Code(Head(b))
    ELSE StrLess(Tail(a), Tail(b))

\* s.split("/")
RECURSIVE Split(_)
Split(s) ==
    IF s = <<>> THEN << <<>> >>
    ELSE LET rest == Split(Tail(s))
         IN  IF Head(s) = "/" THEN << <<>> >> \o rest
             ELSE << <<Head(s)>> \o Head(rest) >> \o Tail(rest)

\* "/".join(parts)
RECURSIVE Join(_)
Join(parts) ==
    IF parts = <<>> THEN <<>>
    ELSE IF Len(parts) = 1 THEN Head(parts)
    ELSE Head(parts) \o <<"/">> \o Join(Tail(parts))

DotDot == <<".", ".">>
Dot == <<".">>

agent_py == <<"a", "g", "e", "n", "t", ".", "p", "y">>
my_agent_py == <<"m", "y", "_">> \o agent_py
underscore_agent_py == <<"_">> \o agent_py
dockerignore == <<".", "d", "o", "c", "k", "e", "r", "i", "g", "n", "o", "r", "e">>
base_requirements_txt ==
    <<"b", "a", "s", "e", "_", "r", "e", "q", "u", "i", "r", "e", "m", "e", "n", "t", "s",
      ".", "t", "x", "t">>

-----------------------------------------------------------------------------
(* Archives and build contexts. *)

None == "None"

\* A zip member (zipfile.ZipInfo with its stored bytes).
Member(name, data) == [filename |-> name, data |-> data]

\* ZipInfo.is_dir(): the name ends with "/".
is_dir(m) == endswith(m.filename, <<"/">>)

\* The members archives are generated from.
Members ==
    { Member(agent_py, <<"c">>),
      Member(my_agent_py, <<"c">>),
      Member(<<"s", "/">>, <<>>),
      Member(<<"s", "/">> \o agent_py, <<"c">>),
      Member(<<".", ".", "/", "e">>, <<"c">>),
      Member(<<".", ".", "/", "d", "x", "/", "e">>, <<"c">>),
      Member(<<"a">>, <<"b", "c">>),
      Member(<<"a">>, <<"c">>),
      Member(<<"a", "b">>, <<"c">>),
      Member(dockerignore, <<"c">>) }

DistinctNames(ms) ==
    \A i, j \in 1..Len(ms) : i # j => ms[i].filename # ms[j].filename

MemberSeqs(n) == UNION { [1..k -> Members] : k \in 0..n }

\* The zip_bytes of the model: valid archives of at most MaxMembers entries,
\* and one byte string that is not a zip archive.
Archives ==
    { [valid |-> TRUE, members |-> ms] : ms \in { x \in MemberSeqs(MaxMembers) : DistinctNames(x) } }
    \cup { [valid |-> FALSE, members |-> <<>>] }

\* The directory tempfile creates build directories in, and the names it may draw.
TmpRoot == << <<"t">> >>
TmpNames == { <<"d">>, <<"e">> }

\* pathlib: the parts of a path string (empty and "." components are dropped).
Parts(s) == SelectSeq(Split(s), LAMBDA c : c # <<>> /\ c # Dot)

\* Path.resolve() of an absolute path without symbolic links: ".." pops a component.
RECURSIVE Resolve(_, _)
Resolve(acc, parts) ==
    IF parts = <<>> THEN acc
    ELSE IF Head(parts) = DotDot
         THEN Resolve(IF acc = <<>> THEN acc ELSE SubSeq(acc, 1, Len(acc) - 1), Tail(parts))
         ELSE Resolve(Append(acc, Head(parts)), Tail(parts))

\* (dst / filename).resolve(): an absolute filename replaces dst.
ResolveUnder(dst, filename) ==
    IF startswith(filename, <<"/">>) THEN Resolve(<<>>, Parts(filename))
    ELSE Resolve(<<>>, dst \o Parts(filename))

\* str(path) of an absolute path
PathStr(parts) == <<"/">> \o Join(parts)

\* The path is dst or below it (what the zip-slip check is meant to decide).
IsDescendant(p, dst) == Len(dst) <= Len(p) /\ SubSeq(p, 1, Len(dst)) = dst

\* The test of line 21 that raises "Illegal Path in ZIP".
IllegalPath(p, dst) == ~ startswith(PathStr(p), PathStr(dst))

\* zipfile's _extract_member: the components "", "." and ".." are dropped from
\* the member's name, the rest is created under dst.
Sanitized(filename) ==
    SelectSeq(Split(filename), LAMBDA c : c # <<>> /\ c # Dot /\ c # DotDot)

EmptyTree == [p \in {} |-> None]

DirEntry == [dir |-> TRUE, data |-> <<>>]
FileEntry(data) == [dir |-> FALSE, data |-> data]

\* The directories above a relative path.
Parents(p) == { SubSeq(p, 1, k) : k \in 1..(Len(p) - 1) }

\* Writing one member into the tree (parents are created, an existing path is replaced).
PutMember(tree, m) ==
    LET p == Sanitized(m.filename)
        parents == [q \in (Parents(p) \ DOMAIN tree) |-> DirEntry]
    IN  IF p = <<>> THEN tree
        ELSE (p :> (IF is_dir(m) THEN DirEntry ELSE FileEntry(m.data))) @@ parents @@ tree

\* zf.extractall(dst)
RECURSIVE extractall(_, _)
extractall(tree, ms) ==
    IF ms = <<>> THEN tree ELSE extractall(PutMember(tree, Head(ms)), Tail(ms))

\* The first member the check of _safe_extract_zip rejects (0: none).
FirstIllegal(ms, dst) ==
    LET bad == { i \in 1..Len(ms) : IllegalPath(ResolveUnder(dst, ms[i].filename), dst) }
    IN  IF bad = {} THEN 0 ELSE CHOOSE i \in bad : \A j \in bad : i <= j

\* _safe_extract_zip(zip_bytes, dst): the error raised (None: none, then tree is
\* what was extracted).
safe_extract_zip(zip, dst) ==
    IF ~ zip.valid
    THEN [error |-> "BadZipFile", msg |-> <<>>, tree |-> EmptyTree]
    ELSE LET i == FirstIllegal(zip.members, dst)
         IN  IF i # 0
             THEN [error |-> "BuildError", msg |-> <<"Illegal Path in ZIP", zip.members[i].filename>>,
                   tree |-> EmptyTree]
             ELSE [error |-> None, msg |-> <<>>, tree |-> extractall(EmptyTree, zip.members)]

\* Path comparison (by parts, each part compared as a string).
RECURSIVE PathLess(_, _)
PathLess(p, q) ==
    IF q = <<>> THEN FALSE
    ELSE IF p = <<>> THEN TRUE
    ELSE IF Head(p) # Head(q) THEN StrLess(Head(p), Head(q))
    ELSE PathLess(Tail(p), Tail(q))

\* sorted(paths)
RECURSIVE SortPaths(_)
SortPaths(S) ==
    IF S = {} THEN <<>>
    ELSE LET m == CHOOSE p \in S : \A q \in S \ {p} : PathLess(p, q)
         IN  <<m>> \o SortPaths(S \ {m})

RegularFiles(tree) == { p \in DOMAIN tree : ~ tree[p].dir }

\* ctx.iterdir(): the names at the top level of the tree.
TopLevel(tree) == { p[1] : p \in { q \in DOMAIN tree : Len(q) = 1 } }

\* The orders iterdir may list the top level in.
Listings(tree) ==
    LET names == TopLevel(tree)
        n == Cardinality(names)
    IN  { f \in [1..n -> names] : \A i, j \in 1..n : i # j => f[i] # f[j] }

\* The condition of line 44 on a top-level name.
IsCandidate(tree, name) ==
    /\ ~ tree[<<name>>].dir
    /\ (name = agent_py \/ endswith(name, underscore_agent_py))

\* The names of the files anywhere in the tree, in sorted order (ctx.rglob).
AllFileNames(tree) ==
    LET ps == SortPaths(RegularFiles(tree))
    IN  [i \in 1..Len(ps) |-> ps[i][Len(ps[i])]]

\* _find_agent_entry scanning the whole tree instead of its top level.
find_agent_entry_rglob(tree, listing) ==
    LET candidates ==
            SelectSeq(AllFileNames(tree),
                      LAMBDA n : n = agent_py \/ endswith(n, underscore_agent_py))
    IN  IF candidates = <<>>
        THEN [error |-> "BuildError", msg |-> <<"No agent entry file found">>, name |-> <<>>]
        ELSE IF Len(candidates) > 1
        THEN [error |-> "BuildError", msg |-> <<"Multiple agent entry files found", candidates>>,
              name |-> <<>>]
        ELSE [error |-> None, msg |-> <<>>, name |-> candidates[1]]

\* _find_agent_entry(ctx), with iterdir listing the top level in the order `listing`.
find_agent_entry(tree, listing) ==
    LET candidates == SelectSeq(listing, LAMBDA n : IsCandidate(tree, n))
    IN  IF candidates = <<>>
        THEN [error |-> "BuildError", msg |-> <<"No agent entry file found">>, name |-> <<>>]
        ELSE IF Len(candidates) > 1
        THEN [error |-> "BuildError", msg |-> <<"Multiple agent entry files found", candidates>>,
              name |-> <<>>]
        ELSE [error |-> None, msg |-> <<>>, name |-> candidates[1]]

\* Contents of the operator's base_requirements.txt and default_dockerignore.
BaseReqsData == <<"r">>
DefaultIgnoreData == <<"i">>

\* Lines 78-87: the files build_from_zip adds to the build context.
inject(tree, dep) ==
    LET t1 == IF dep.base_reqs
              THEN (<<base_requirements_txt>> :> FileEntry(BaseReqsData)) @@ tree
              ELSE tree
    IN  IF <<dockerignore>> \notin DOMAIN t1 /\ dep.default_ignore
        THEN (<<dockerignore>> :> FileEntry(DefaultIgnoreData)) @@ t1
        ELSE t1

\* What one file contributes to the hash: relative posix path, then contents.
FileBytes(tree, p) == Join(p) \o tree[p].data

RECURSIVE Concat(_, _)
Concat(tree, ps) ==
    IF ps = <<>> THEN <<>> ELSE FileBytes(tree, Head(ps)) \o Concat(tree, Tail(ps))

\* The byte stream _content_hash feeds to SHA-256.
HashInput(tree) == Concat(tree, SortPaths(RegularFiles(tree)))

\* _content_hash(root). SHA-256 is taken to be collision-free: the digest is
\* modelled by the stream it was computed from, and so is its 8-character prefix.
content_hash(tree) == HashInput(tree)

-----------------------------------------------------------------------------
(* build_from_zip. *)

Owners == {"o1", "o2"}

\* Line 63: the default repo_prefix and base_label_ns.
DefaultPrefix == "agent"
DefaultLabelNs == "org.aiclub"

\* agent_manager.py: the label keys the lifecycle manager reads.
LABEL_NS == "org.gameai"
LABEL_KIND == <<LABEL_NS, "kind">>
LABEL_OWNER_ID == <<LABEL_NS, "owner_id">>
LABEL_AGENT_ID == <<LABEL_NS, "agent_id">>
LABEL_MATCH_ID == <<LABEL_NS, "match_id">>
KIND_IMAGE_AGENT == "agent"
KIND_CONTAINER_AGENT == "agent-container"

\* dict.get(key): None when the key is absent.
Get(d, k) == IF k \in DOMAIN d THEN d[k] ELSE None

\* A call of build_from_zip.
BuildArgs(zip, owner, prefix, ns) ==
    [zip_bytes |-> zip, owner_id |-> owner, repo_prefix |-> prefix, base_label_ns |-> ns]

\* Lines 91-92: the tag of a build.
full_tag_with_owner(args, sha) == <<args.repo_prefix, sha, args.owner_id, "latest">>
full_tag_of(args, sha) == <<args.repo_prefix, sha, "latest">>

\* Lines 93-98: the labels of a build.
build_labels(ns, owner_id, sha, now) ==
    (<<ns, "owner_id">> :> owner_id)
    @@ (<<ns, "content_sha256">> :> sha)
    @@ (<<ns, "created_at">> :> now)
    @@ (<<ns, "kind">> :> "agent")

NoArgs == [none |-> TRUE]
NoResult == [error |-> "unset"]
NoOp == [op |-> "none"]

\* The second call when it has not been made.
NoPeer == [pc |-> "idle", args |-> NoArgs, tmp |-> <<>>, ctx |-> EmptyTree, res |-> NoResult]

\* The worker when it does not run. The fields that hold None in the code are
\* sequences, empty for None.
NoWorker ==
    [variant |-> "none", pc |-> "off", queue |-> <<>>, job |-> [type |-> "none"],
     files |-> {}, subs |-> [k \in {} |-> ""], err |-> "", assigned |-> <<>>]

BuildIdle ==
    /\ bpc = "idle" /\ bargs = NoArgs /\ btmp = <<>> /\ bctx = EmptyTree
    /\ disk = {} /\ bentry = <<>> /\ bres = NoResult /\ engineCalls = 0
    /\ peer = NoPeer
    /\ worker = NoWorker

dst == TmpRoot \o <<btmp>>

\* The with-block is left: the TemporaryDirectory and all below it is removed.
LeaveTmpKeepsDirectory ==
    /\ btmp' = <<>>
    /\ bctx' = EmptyTree
    /\ UNCHANGED <<tmpdirs, disk>>
LeaveTmp ==
    /\ tmpdirs' = tmpdirs \ {btmp}
    /\ disk' = { q \in disk : ~ IsDescendant(q, dst) }
    /\ btmp' = <<>>
    /\ bctx' = EmptyTree

\* A caller invokes build_from_zip.
BuildCall(zips, argsets) ==
    /\ bpc \in {"idle", "done"}
    /\ clock < MaxBuilds
    /\ \E zip \in zips, owner \in Owners, a \in argsets :
          bargs' = BuildArgs(zip, owner, a[1], a[2])
    /\ bpc' = "dockerfile"
    /\ btmp' = <<>> /\ bctx' = EmptyTree /\ bentry' = <<>>
    /\ bres' = NoResult /\ engineCalls' = 0
    /\ mop' = NoOp
    /\ UNCHANGED <<deploy, peer, worker, tmpdirs, disk, imageVars, contVars, runVars, sres>>

\* Lines 65-73: the Dockerfile check, then the temporary directory is created.
BuildCheckDockerfile ==
    /\ bpc = "dockerfile"
    /\ IF ~ deploy.dockerfile
       THEN /\ bres' = [error |-> "BuildError", msg |-> <<"submissions/Dockerfile nicht gefunden.">>]
            /\ bpc' = "done"
            /\ UNCHANGED <<btmp, tmpdirs>>
       ELSE /\ \E t \in TmpNames \ tmpdirs : btmp' = t /\ tmpdirs' = tmpdirs \cup {t}
            /\ bpc' = "extract"
            /\ UNCHANGED bres
    /\ UNCHANGED <<deploy, peer, worker, bargs, bctx, disk, bentry, engineCalls, imageVars, mop,
                   contVars, runVars, sres>>

\* Line 74: _safe_extract_zip(zip_bytes, ctx).
BuildExtract ==
    /\ bpc = "extract"
    /\ LET r == safe_extract_zip(bargs.zip_bytes, dst)
       IN  IF r.error # None
           THEN /\ bres' = [error |-> r.error, msg |-> r.msg]
                /\ bpc' = "done"
                /\ LeaveTmp
           ELSE /\ bctx' = r.tree
                /\ disk' = disk \cup { dst \o q : q \in DOMAIN r.tree }
                /\ bpc' = "entry"
                /\ UNCHANGED <<bres, tmpdirs, btmp>>
    /\ UNCHANGED <<deploy, peer, worker, bargs, bentry, engineCalls, imageVars, mop, contVars,
                   runVars, sres>>

\* Line 76: entry_file = _find_agent_entry(ctx).
BuildFindEntryGoesOn ==
    /\ bpc = "entry"
    /\ \E listing \in Listings(bctx) : bentry' = find_agent_entry(bctx, listing).name
    /\ bpc' = "inject"
    /\ UNCHANGED <<bres, tmpdirs, btmp, bctx, disk>>
    /\ UNCHANGED <<deploy, peer, worker, bargs, engineCalls, imageVars, mop, contVars,
                   runVars, sres>>

BuildFindEntry ==
    /\ bpc = "entry"
    /\ \E listing \in Listings(bctx) :
          LET r == find_agent_entry(bctx, listing)
          IN  IF r.error # None
              THEN /\ bres' = [error |-> r.error, msg |-> r.msg]
                   /\ bpc' = "done"
                   /\ LeaveTmp
                   /\ UNCHANGED bentry
              ELSE /\ bentry' = r.name
                   /\ bpc' = "inject"
                   /\ UNCHANGED <<bres, tmpdirs, btmp, bctx, disk>>
    /\ UNCHANGED <<deploy, peer, worker, bargs, engineCalls, imageVars, mop, contVars,
                   runVars, sres>>

\* Lines 78-87: base_requirements.txt and the default .dockerignore.
BuildInject ==
    /\ bpc = "inject"
    /\ bctx' = inject(bctx, deploy)
    /\ disk' = disk \cup { dst \o q : q \in DOMAIN inject(bctx, deploy) }
    /\ bpc' = "engine"
    /\ UNCHANGED <<deploy, peer, worker, bargs, btmp, tmpdirs, bentry, bres, engineCalls,
                   imageVars, mop, contVars, runVars, sres>>

\* Lines 89-115: hash, tag and labels, then client.images.build. The engine
\* either fails (its exception leaves build_from_zip as it is) or creates an image
\* with the labels and moves the tag to it. The labels hold the time of the
\* build, so no two builds produce the same image: its id is modelled by that time.
BuildEngine ==
    /\ bpc = "engine"
    /\ LET sha == content_hash(bctx)
           now == clock + 1
           full_tag == full_tag_of(bargs, sha)
           labels == build_labels(bargs.base_label_ns, bargs.owner_id, sha, now)
       IN  /\ clock' = now
           /\ engineCalls' = engineCalls + 1
           /\ \E ok \in BOOLEAN :
                 IF ok
                 THEN /\ images' = images \cup {[id |-> now, labels |-> labels]}
                      /\ tags' = (full_tag :> now) @@ tags
                      /\ bres' = [error |-> None, image_id |-> now, tag |-> full_tag,
                                  labels |-> labels]
                      /\ builds' = Append(builds, [args |-> bargs, tree |-> bctx,
                                                   image_id |-> now, tag |-> full_tag,
                                                   labels |-> labels])
                 ELSE /\ bres' = [error |-> "docker.errors.BuildError", msg |-> <<>>]
                      /\ UNCHANGED <<images, tags, builds>>
    /\ bpc' = "done"
    /\ LeaveTmp
    /\ UNCHANGED <<deploy, peer, worker, bargs, bentry, mop, contVars, runVars, sres>>


-----------------------------------------------------------------------------
(* The state before any call. *)

\* Line 59 of agent_runner.py: log_tail when the settings do not set it.
DefaultLogTail == 10000

\* Lines 21-31 of agent_runner.py: the keys _build_docker_run_kwargs lets through.
allowed ==
    {"cap_drop", "security_opt", "read_only", "tmpfs", "pids_limit", "ulimits",
     "mem_limit", "nano_cpus", "network_mode"}

\* Environments: mappings from variable names to values. EmptyEnv is {} (and the
\* extra_env None, which line 55 treats alike); the policy and the callers of the
\* model both set B.
EmptyEnv == [k \in {} |-> ""]
PolicyEnv == [k \in {"A", "B"} |-> "policy"]
ExtraEnvs == { EmptyEnv, [k \in {"B", "C"} |-> "caller"] }

\* What yaml.safe_load returns for secure_default_settings.yaml, beside log_tail:
\* a mapping with or without network_mode (an allowed key), env (read by the
\* callers, not an engine argument) and privileged (a key the code does not know).
PolicySources ==
    { [k \in K |-> f[k]] :
        f \in [network_mode : {"none"}, env : {PolicyEnv},
               privileged : {"true"}],
        K \in SUBSET {"network_mode", "env", "privileged"} }

\* The mapping of the deployments whose policy does not matter.
DefaultPolicy == [k \in {"network_mode"} |-> "none"]

\* Lines 20-32: _build_docker_run_kwargs(settings).
build_docker_run_kwargs_verbatim(settings) == settings

build_docker_run_kwargs(settings) ==
    [k \in allowed \cap DOMAIN settings |-> settings[k]]

\* Lines 53 and 140: settings.get("env") or {}.
base_env(settings) == IF "env" \in DOMAIN settings THEN settings["env"] ELSE EmptyEnv

\* Lines 54-56 and 141-143: env = dict(base_env); env.update(extra_env).
merged_env_policy_wins(base, extra_env) ==
    [k \in DOMAIN base \cup DOMAIN extra_env |->
        IF k \in DOMAIN base THEN base[k] ELSE extra_env[k]]

merged_env(base, extra_env) ==
    [k \in DOMAIN base \cup DOMAIN extra_env |->
        IF k \in DOMAIN extra_env THEN extra_env[k] ELSE base[k]]

\* What both callers hand client.containers.run from the settings (lines 63-68
\* and 156-163): environment=env and **run_kwargs.
start_arguments(settings, extra_env) ==
    [environment |-> merged_env(base_env(settings), extra_env),
     kwargs |-> build_docker_run_kwargs(settings)]

\* The files beside the code: Dockerfile.agent, base_requirements.txt,
\* default_dockerignore and secure_default_settings.yaml (with its log_tail and
\* the rest of its mapping).
Deployments ==
    [dockerfile : BOOLEAN, base_reqs : BOOLEAN, default_ignore : BOOLEAN, settings : BOOLEAN,
     log_tail : {3, DefaultLogTail}, policy : PolicySources]

ImagesEmpty ==
    /\ images = {} /\ tags = <<>> /\ clock = 0 /\ builds = <<>> /\ mop = NoOp

ContainersEmpty ==
    /\ containers = {} /\ nextCid = 1 /\ sres = NoResult

RunIdle ==
    /\ rpc = "idle" /\ rimg = NoArgs /\ renv = EmptyEnv /\ rcid = 0 /\ rflag = FALSE
    /\ rexit = <<>>
    /\ rlogs = <<>> /\ rres = NoResult /\ rhist = {}

-----------------------------------------------------------------------------
(* One build_from_zip call on every archive of the model. *)

InitBuild ==
    /\ deploy \in { d \in Deployments :
                     d.settings /\ d.log_tail = DefaultLogTail /\ d.policy = DefaultPolicy }
    /\ bpc = "dockerfile"
    /\ bargs \in { BuildArgs(zip, "o1", DefaultPrefix, DefaultLabelNs) : zip \in Archives }
    /\ btmp = <<>> /\ bctx = EmptyTree /\ disk = {} /\ bentry = <<>>
    /\ bres = NoResult /\ engineCalls = 0
    /\ peer = NoPeer
    /\ worker = NoWorker
    /\ tmpdirs = {}
    /\ ImagesEmpty /\ ContainersEmpty /\ RunIdle

NextBuild ==
    \/ BuildCheckDockerfile
    \/ BuildExtract
    \/ BuildFindEntry
    \/ BuildInject
    \/ BuildEngine

SpecBuild == InitBuild /\ [][NextBuild]_vars

-----------------------------------------------------------------------------
(* agent_manager.py: images. The operations act on the store in one engine      *)
(* call each (the bulk delete in one loop); a build touches the store only in   *)
(* its last step, so an operation during a build has the effect of the same     *)
(* operation before it, and the model takes them between builds.                *)

\* An image reference: a tag or an image id.
TagRef(t) == [kind |-> "tag", tag |-> t]
IdRef(i) == [kind |-> "id", id |-> i]
MissingRef == TagRef(<<"non_existent_image", <<>>, "tag">>)

\* The id of the image a reference names in the engine (0: ImageNotFound).
ResolveRef(imgs, tgs, ref) ==
    IF ref.kind = "tag"
    THEN IF ref.tag \in DOMAIN tgs THEN tgs[ref.tag] ELSE 0
    ELSE IF \E i \in imgs : i.id = ref.id THEN ref.id ELSE 0

TagsOf(tgs, id) == { t \in DOMAIN tgs : tgs[t] = id }

Untag(tgs, gone) == [t \in (DOMAIN tgs \ gone) |-> tgs[t]]

\* The engine's images.remove(image=ref): a tag is removed, and the image with its
\* last tag; an id removes the image and its tags.
EngineRemoveImages(imgs, tgs, ref) ==
    LET id == ResolveRef(imgs, tgs, ref)
        gone == IF ref.kind = "tag" THEN {ref.tag} ELSE TagsOf(tgs, id)
        left == Untag(tgs, gone)
    IN  IF TagsOf(left, id) = {} THEN { i \in imgs : i.id # id } ELSE imgs

EngineRemoveTags(imgs, tgs, ref) ==
    LET id == ResolveRef(imgs, tgs, ref)
    IN  Untag(tgs, IF ref.kind = "tag" THEN {ref.tag} ELSE TagsOf(tgs, id))

\* Lines 33-37 of list_agent_images: the images the listing keeps.
Listed(imgs, owner_id) ==
    { i \in imgs :
        /\ Get(i.labels, LABEL_KIND) = KIND_IMAGE_AGENT
        /\ (owner_id = None \/ Get(i.labels, LABEL_OWNER_ID) = owner_id) }

\* list_agent_images(owner_id)
list_agent_images(imgs, tgs, owner_id) ==
    { [image_id |-> i.id,
       tags |-> TagsOf(tgs, i.id),
       owner_id |-> Get(i.labels, LABEL_OWNER_ID),
       created_at |-> Get(i.labels, <<LABEL_NS, "created_at">>),
       content_sha256 |-> Get(i.labels, <<LABEL_NS, "content_sha256">>)] :
      i \in Listed(imgs, owner_id) }

ListAgentImages ==
    /\ bpc \in {"idle", "done"}
    /\ \E owner_id \in Owners \cup {None} :
          mop' = [op |-> "list_agent_images", owner_id |-> owner_id,
                  result |-> list_agent_images(images, tags, owner_id)]
    /\ UNCHANGED <<deploy, buildVars, tmpdirs, imageVars, contVars, runVars, sres>>

\* The references a caller may pass: the tags and ids of the store, and one that
\* names nothing.
KnownRefs == { TagRef(t) : t \in DOMAIN tags } \cup { IdRef(i.id) : i \in images }

\* delete_agent_image(image_ref, force). force is handed to the engine; the engine,
\* when the image exists, removes it or refuses (a conflict with a container that
\* uses it, for one).
DeleteAgentImage ==
    /\ bpc \in {"idle", "done"}
    /\ \E ref \in KnownRefs \cup {MissingRef}, engine_ok \in BOOLEAN :
          IF ResolveRef(images, tags, ref) = 0
          THEN /\ mop' = [op |-> "delete_agent_image", ref |-> ref,
                          error |-> "ManagementError", msg |-> "Image not found"]
               /\ UNCHANGED <<images, tags>>
          ELSE IF ~ engine_ok
          THEN /\ mop' = [op |-> "delete_agent_image", ref |-> ref,
                          error |-> "ManagementError", msg |-> "Failed to delete image"]
               /\ UNCHANGED <<images, tags>>
          ELSE /\ mop' = [op |-> "delete_agent_image", ref |-> ref,
                          error |-> None, msg |-> ""]
               /\ images' = EngineRemoveImages(images, tags, ref)
               /\ tags' = EngineRemoveTags(images, tags, ref)
    /\ UNCHANGED <<deploy, buildVars, tmpdirs, clock, builds, contVars, runVars, sres>>

\* What the engine answers to one images.remove of the bulk delete: "ok", "gone"
\* (someone else removed the image after it was listed: ImageNotFound) or "error".
Fates == {"ok", "gone", "error"}

\* Lines 66-76: the loop of delete_images_for_owner over the listed image ids, in
\* listing order. st = [images, tags, count, gone, error].
RECURSIVE DeleteLoop(_, _, _)
DeleteLoop(ids, fate, st) ==
    IF ids = <<>> \/ st.error # None THEN st
    ELSE LET id == Head(ids)
             ref == IdRef(id)
             removed == [st EXCEPT !.images = EngineRemoveImages(st.images, st.tags, ref),
                                   !.tags = EngineRemoveTags(st.images, st.tags, ref)]
         IN  IF fate[id] = "ok"
             THEN DeleteLoop(Tail(ids), fate, [removed EXCEPT !.count = @ + 1])
             ELSE IF fate[id] = "gone"
             THEN DeleteLoop(Tail(ids), fate, [removed EXCEPT !.gone = @ + 1])
             ELSE [st EXCEPT !.error = "ManagementError"]

Orderings(S) ==
    LET n == Cardinality(S)
    IN  { f \in [1..n -> S] : \A i, j \in 1..n : i # j => f[i] # f[j] }

\* delete_images_for_owner(owner_id, force), the engine listing the images in the
\* order ids.
DeleteImagesForOwnerCountsGone ==
    /\ bpc \in {"idle", "done"}
    /\ \E owner_id \in Owners :
          LET listed == { r.image_id : r \in list_agent_images(images, tags, owner_id) }
          IN  \E ids \in Orderings(listed), fate \in [listed -> Fates] :
                 LET st == DeleteLoop(ids, fate,
                                      [images |-> images, tags |-> tags, count |-> 0,
                                       gone |-> 0, error |-> None])
                 IN  /\ images' = st.images
                     /\ tags' = st.tags
                     /\ mop' = [op |-> "delete_images_for_owner", owner_id |-> owner_id,
                                listed |-> listed, gone |-> st.gone,
                                error |-> st.error, count |-> st.count + st.gone]
    /\ UNCHANGED <<deploy, buildVars, tmpdirs, clock, builds, contVars, runVars, sres>>

DeleteImagesForOwner ==
    /\ bpc \in {"idle", "done"}
    /\ \E owner_id \in Owners :
          LET listed == { r.image_id : r \in list_agent_images(images, tags, owner_id) }
          IN  \E ids \in Orderings(listed), fate \in [listed -> Fates] :
                 LET st == DeleteLoop(ids, fate,
                                      [images |-> images, tags |-> tags, count |-> 0,
                                       gone |-> 0, error |-> None])
                 IN  /\ images' = st.images
                     /\ tags' = st.tags
                     /\ mop' = [op |-> "delete_images_for_owner", owner_id |-> owner_id,
                                listed |-> listed, gone |-> st.gone,
                                error |-> st.error, count |-> st.count]
    /\ UNCHANGED <<deploy, buildVars, tmpdirs, clock, builds, contVars, runVars, sres>>

-----------------------------------------------------------------------------
(* The image store: builds and the lifecycle manager's image operations. *)

\* The archives built into the image store.
ImageZips ==
    { z \in Archives :
        /\ z.valid /\ Len(z.members) = 2
        /\ z.members[1].filename = agent_py
        /\ z.members[2].filename \in { <<"a">>, <<"a", "b">> } }

\* repo_prefix and base_label_ns of the calls: the defaults, and both overridden.
ImageArgSets == { <<DefaultPrefix, DefaultLabelNs>>, <<"bot", LABEL_NS>> }

InitImages ==
    /\ deploy \in { d \in Deployments :
                     /\ d.settings /\ d.base_reqs /\ d.default_ignore
                     /\ d.log_tail = DefaultLogTail /\ d.policy = DefaultPolicy }
    /\ BuildIdle
    /\ tmpdirs = {}
    /\ ImagesEmpty /\ ContainersEmpty /\ RunIdle

NextImages ==
    \/ BuildCall(ImageZips, ImageArgSets)
    \/ BuildCheckDockerfile
    \/ BuildExtract
    \/ BuildFindEntry
    \/ BuildInject
    \/ BuildEngine
    \/ ListAgentImages
    \/ DeleteAgentImage
    \/ DeleteImagesForOwner

SpecImages == InitImages /\ [][NextImages]_vars

-----------------------------------------------------------------------------
(* The build workers: submissions/agent_builder_worker.py keeps the submissions
   through a database session, orchestration/agent_builder_worker.py through the
   backend's API. Both take jobs from the queue and call build_from_zip. *)

\* submission.py, lines 8-12.
SubmissionStatus == {"queued", "building", "completed", "failed"}

\* submission.py, lines 26-38: the submissions of the model as the backend
\* creates them, with their users; s0 names no submission.
Submissions ==
    [s \in {"s1", "s2"} |->
        [user_id |-> IF s = "s1" THEN "o1" ELSE "o2", status |-> "queued",
         image_id |-> <<>>, image_tag |-> <<>>, logs |-> ""]]

\* core/queue.py, lines 42-49: the build job of a submission; and a job of
\* another type.
Jobs ==
    { [type |-> t, submission_id |-> s, zip_path |-> <<s, "zip">>] :
        t \in {"build"}, s \in {"s0", "s1", "s2"} }
    \cup { [type |-> "match", submission_id |-> "s1", zip_path |-> <<"s1", "zip">>] }

\* The queues the worker starts with: up to MaxBuilds jobs, none of them twice.
Queues ==
    { q \in UNION { [1..n -> Jobs] : n \in 1..MaxBuilds } :
        \A i, j \in DOMAIN q : q[i] = q[j] => i = j }

\* The worker's own frame: what the build call and the engine hold.
notWorker == <<deploy, bpc, bargs, btmp, tmpdirs, bctx, disk, bentry, bres, engineCalls,
               peer, imageVars, mop, contVars, runVars, sres>>

\* worker_loop: the next job is taken from the queue; a job of another type is
\* logged and dropped.
WorkerTakeJob ==
    /\ worker.pc = "idle"
    /\ worker.queue # <<>>
    /\ worker' = [worker EXCEPT !.queue = Tail(worker.queue),
                                !.job = Head(worker.queue),
                                !.err = "", !.assigned = <<>>,
                                !.pc = IF Head(worker.queue).type = "build"
                                       THEN "begin" ELSE "idle"]
    /\ UNCHANGED notWorker

\* process_build, up to the update to 'building'. The store takes an update of
\* a submission when the row is there and the commit, or the PATCH request,
\* succeeds (ok). The database worker returns
\* when the submission is not found and commits outside its try block, so a
\* failed commit leaves process_build and is caught by the loop; the API worker
\* updates inside the try block.
ProcessBuildBegin ==
    /\ worker.pc = "begin"
    /\ LET sid == worker.job.submission_id
       IN  \E ok \in BOOLEAN :
             IF sid \in DOMAIN worker.subs /\ ok
             THEN worker' = [worker EXCEPT !.subs[sid].status = "building", !.pc = "zip"]
             ELSE IF worker.variant = "submissions"
             THEN worker' = [worker EXCEPT !.pc = "idle"]
             ELSE worker' = [worker EXCEPT !.pc = "failed", !.err = "BackendAPIError"]
    /\ UNCHANGED notWorker

\* process_build: the zip file is read, or FileNotFoundError is raised, and
\* build_from_zip is called on the uploaded archive (one agent.py) with the
\* defaults; the owner is the submission's
\* user in the database worker and the submission id in the API worker.
ProcessBuildReadZip ==
    /\ worker.pc = "zip"
    /\ IF worker.job.zip_path \notin worker.files
       THEN /\ worker' = [worker EXCEPT !.pc = "failed", !.err = "FileNotFoundError"]
            /\ UNCHANGED <<bpc, bargs, btmp, bctx, bentry, bres, engineCalls, mop>>
       ELSE /\ bpc \in {"idle", "done"}
            /\ clock < MaxBuilds
            /\ worker' = [worker EXCEPT !.pc = "build"]
            /\ bargs' = BuildArgs([valid |-> TRUE, members |-> << Member(agent_py, <<"c">>) >>],
                                  IF worker.variant = "submissions"
                                  THEN worker.subs[worker.job.submission_id].user_id
                                  ELSE worker.job.submission_id,
                                  DefaultPrefix, DefaultLabelNs)
            /\ bpc' = "dockerfile"
            /\ btmp' = <<>> /\ bctx' = EmptyTree /\ bentry' = <<>>
            /\ bres' = NoResult /\ engineCalls' = 0
            /\ mop' = NoOp
    /\ UNCHANGED <<deploy, peer, tmpdirs, disk, imageVars, contVars, runVars, sres>>

\* process_build after build_from_zip: an exception of the build goes to the
\* handler; a result is written with status 'completed', and a failure of that
\* update goes to the handler too. The database worker has then assigned
\* image_id and image_tag to the submission object of its session (lines 67-68),
\* which the handler commits again.
ProcessBuildResult ==
    /\ worker.pc = "build"
    /\ bpc = "done"
    /\ LET sid == worker.job.submission_id
       IN  IF bres.error # None
           THEN worker' = [worker EXCEPT !.pc = "failed", !.err = bres.error]
           ELSE \E ok \in BOOLEAN :
                  IF sid \in DOMAIN worker.subs /\ ok
                  THEN worker' = [worker EXCEPT !.subs[sid].status = "completed",
                                                !.subs[sid].image_id = <<bres.image_id>>,
                                                !.subs[sid].image_tag = <<bres.tag>>,
                                                !.subs[sid].logs = "Build successful",
                                                !.pc = "idle"]
                  ELSE worker' = [worker EXCEPT
                                    !.pc = "failed", !.err = "update failed",
                                    !.assigned = IF worker.variant = "submissions"
                                                 THEN <<bres.image_id, bres.tag>>
                                                 ELSE <<>>]
    /\ UNCHANGED notWorker

\* The handler of process_build: status 'failed' and the error text are written.
\* The update is not guarded: when it fails, the exception leaves process_build
\* and the loop catches it.
ProcessBuildFailed ==
    /\ worker.pc = "failed"
    /\ LET sid == worker.job.submission_id
       IN  \E ok \in BOOLEAN :
             IF sid \in DOMAIN worker.subs /\ ok
             THEN worker' = [worker EXCEPT
                               !.subs[sid].status = "failed",
                               !.subs[sid].logs = worker.err,
                               !.subs[sid].image_id =
                                   IF worker.assigned = <<>> THEN @ ELSE <<worker.assigned[1]>>,
                               !.subs[sid].image_tag =
                                   IF worker.assigned = <<>> THEN @ ELSE <<worker.assigned[2]>>,
                               !.pc = "idle"]
             ELSE worker' = [worker EXCEPT !.pc = "idle"]
    /\ UNCHANGED notWorker

InitWorker ==
    /\ deploy \in { d \in Deployments :
                     /\ d.settings /\ d.base_reqs /\ d.default_ignore
                     /\ d.log_tail = DefaultLogTail /\ d.policy = DefaultPolicy }
    /\ bpc = "idle" /\ bargs = NoArgs /\ btmp = <<>> /\ bctx = EmptyTree
    /\ disk = {} /\ bentry = <<>> /\ bres = NoResult /\ engineCalls = 0
    /\ peer = NoPeer
    /\ tmpdirs = {}
    /\ ImagesEmpty /\ ContainersEmpty /\ RunIdle
    /\ \E v \in {"submissions", "orchestration"}, q \in Queues, gone \in SUBSET {<<"s2", "zip">>} :
          worker = [variant |-> v, pc |-> "idle", queue |-> q, job |-> [type |-> "none"],
                    files |-> { <<s, "zip">> : s \in {"s0", "s1", "s2"} } \ gone,
                    subs |-> Submissions, err |-> "", assigned |-> <<>>]

NextWorker ==
    \/ WorkerTakeJob
    \/ ProcessBuildBegin
    \/ ProcessBuildReadZip
    \/ BuildCheckDockerfile
    \/ BuildExtract
    \/ BuildFindEntry
    \/ BuildInject
    \/ BuildEngine
    \/ ProcessBuildResult
    \/ ProcessBuildFailed

SpecWorker == InitWorker /\ [][NextWorker]_vars

-----------------------------------------------------------------------------
(* Two build_from_zip calls at a time. The second call is taken in three steps:
   the call, all it does before the engine, and the engine call with the end of
   the with-block. What the two calls share is the directory tempfile draws names
   in and the engine's image store, and each of these steps accesses them once. *)

\* A caller invokes build_from_zip while the first call is in progress.
PeerCall(zips, argsets) ==
    /\ peer.pc \in {"idle", "done"}
    /\ bpc \notin {"idle", "done"}
    /\ clock < MaxBuilds
    /\ \E zip \in zips, owner \in Owners, a \in argsets :
          peer' = [NoPeer EXCEPT !.pc = "prepare",
                                 !.args = BuildArgs(zip, owner, a[1], a[2])]
    /\ UNCHANGED <<deploy, worker, bpc, bargs, btmp, tmpdirs, bctx, disk, bentry, bres,
                   engineCalls, imageVars, mop, contVars, runVars, sres>>

\* Lines 65-87 of the second call: the Dockerfile check, the temporary directory,
\* extraction, entry resolution and the injected files. A failure leaves the
\* with-block, which removes the directory again.
PeerPrepare ==
    /\ peer.pc = "prepare"
    /\ IF ~ deploy.dockerfile
       THEN /\ peer' = [peer EXCEPT !.pc = "done",
                           !.res = [error |-> "BuildError",
                                    msg |-> <<"submissions/Dockerfile nicht gefunden.">>]]
            /\ UNCHANGED <<tmpdirs, disk>>
       ELSE \E t \in TmpNames \ tmpdirs :
               LET r == safe_extract_zip(peer.args.zip_bytes, TmpRoot \o <<t>>)
               IN  IF r.error # None
                   THEN /\ peer' = [peer EXCEPT !.pc = "done",
                                       !.res = [error |-> r.error, msg |-> r.msg]]
                        /\ UNCHANGED <<tmpdirs, disk>>
                   ELSE \E listing \in Listings(r.tree) :
                           LET e == find_agent_entry(r.tree, listing)
                               ctx == inject(r.tree, deploy)
                           IN  IF e.error # None
                               THEN /\ peer' = [peer EXCEPT !.pc = "done",
                                                   !.res = [error |-> e.error, msg |-> e.msg]]
                                    /\ UNCHANGED <<tmpdirs, disk>>
                               ELSE /\ peer' = [peer EXCEPT !.pc = "engine", !.tmp = t,
                                                               !.ctx = ctx]
                                    /\ tmpdirs' = tmpdirs \cup {t}
                                    /\ disk' = disk \cup { TmpRoot \o <<t>> \o q : q \in DOMAIN ctx }
    /\ UNCHANGED <<deploy, worker, bpc, bargs, btmp, bctx, bentry, bres, engineCalls,
                   imageVars, mop, contVars, runVars, sres>>

\* Lines 89-115 of the second call: hash, tag, labels and client.images.build,
\* then the with-block is left.
PeerEngine ==
    /\ peer.pc = "engine"
    /\ LET sha == content_hash(peer.ctx)
           now == clock + 1
           full_tag == full_tag_of(peer.args, sha)
           labels == build_labels(peer.args.base_label_ns, peer.args.owner_id, sha, now)
       IN  /\ clock' = now
           /\ \E ok \in BOOLEAN :
                 IF ok
                 THEN /\ images' = images \cup {[id |-> now, labels |-> labels]}
                      /\ tags' = (full_tag :> now) @@ tags
                      /\ peer' = [peer EXCEPT !.pc = "done", !.tmp = <<>>, !.ctx = EmptyTree,
                                      !.res = [error |-> None, image_id |-> now,
                                               tag |-> full_tag, labels |-> labels]]
                      /\ builds' = Append(builds, [args |-> peer.args, tree |-> peer.ctx,
                                                   image_id |-> now, tag |-> full_tag,
                                                   labels |-> labels])
                 ELSE /\ peer' = [peer EXCEPT !.pc = "done", !.tmp = <<>>, !.ctx = EmptyTree,
                                      !.res = [error |-> "docker.errors.BuildError",
                                               msg |-> <<>>]]
                      /\ UNCHANGED <<images, tags, builds>>
    /\ tmpdirs' = tmpdirs \ {peer.tmp}
    /\ disk' = { q \in disk : ~ IsDescendant(q, TmpRoot \o <<peer.tmp>>) }
    /\ UNCHANGED <<deploy, worker, bpc, bargs, btmp, bctx, bentry, bres, engineCalls,
                   mop, contVars, runVars, sres>>

\* The archives of the concurrent calls, which pass the default arguments.
PeerZips == { z \in ImageZips : z.members[2].data = <<"c">> }

NextPeers ==
    \/ BuildCall(PeerZips, { <<DefaultPrefix, DefaultLabelNs>> })
    \/ BuildCheckDockerfile
    \/ BuildExtract
    \/ BuildFindEntry
    \/ BuildInject
    \/ BuildEngine
    \/ PeerCall(PeerZips, { <<DefaultPrefix, DefaultLabelNs>> })
    \/ PeerPrepare
    \/ PeerEngine

SpecPeers == InitImages /\ [][NextPeers]_vars

-----------------------------------------------------------------------------
(* The container engine. *)

ExitCodes == {0, 1}

\* What a container prints before it exits: a sequence of lines of one MiB each.
Lines(n) == [i \in 1..n |-> <<"line", i>>]

\* The byte ceiling on returned logs that the runner's test names, in MiB.
LogCeilingMiB == 5

\* The outputs of the containers of the model, in MiB.
Outputs == {LogCeilingMiB, MaxOutput}

NoLabels == <<>>

\* The image references the callers of the runner pass: the tags that builds
\* returned, and one that names no image.
RunRefs == { TagRef(t) : t \in DOMAIN tags } \cup {MissingRef}

\* The engine's record of a container; image is the id of the image it runs,
\* args the arguments it was started with, and call remembers the ids that
\* start_agent_container was called with.
Container(id, name, image, labels, args, output, call) ==
    [id |-> id, name |-> name, image |-> image, labels |-> labels, args |-> args,
     status |-> "running", exit_code |-> 0, output |-> output, call |-> call]

ById(id) == CHOOSE c \in containers : c.id = id
Exists(id) == \E c \in containers : c.id = id
Running(id) == \E c \in containers : c.id = id /\ c.status = "running"

\* The containers with c replaced by d.
Replace(c, d) == (containers \ {c}) \cup {d}

\* A running container's process ends by itself.
ContainerExit ==
    /\ \E c \in containers, code \in ExitCodes :
          /\ c.status = "running"
          /\ containers' = Replace(c, [c EXCEPT !.status = "exited", !.exit_code = code])
    /\ UNCHANGED <<deploy, buildVars, imageVars, mop, nextCid, runVars, sres>>

\* The engine's stop or kill of a container: its process is ended by a signal.
Killed(c) == [c EXCEPT !.status = "exited", !.exit_code = 137]

-----------------------------------------------------------------------------
(* agent_runner.py: run_agent. *)

\* Line 90: the exit code of a run that timed out.
TimeoutExitCode == 124

\* container.logs(tail=n): the last n lines.
LogsTail(out, n) == IF Len(out) <= n THEN out ELSE SubSeq(out, Len(out) - n + 1, Len(out))

\* Lines 92-97: the logs run_agent returns for the raw logs it read, which the
\* model takes to be valid UTF-8, so that decode(errors="replace") keeps every line.
returned_logs_first_line(raw) == [i \in 1..(IF Len(raw) > 0 THEN 1 ELSE 0) |-> raw[i]]

returned_logs(raw) == [i \in 1..Len(raw) |-> raw[i]]

\* Lines 69-72: the message of the RunError of a failed start; image is the id
\* the reference resolved to (0: the engine raised ImageNotFound).
start_error_generic(image) == "Failed to start container"
start_error(image) ==
    IF image = 0 THEN "Image not found" ELSE "Failed to start container"

\* A caller invokes run_agent(image_ref, extra_env) with extra_env from envs;
\* lines 49-60 load the settings.
RunCallWith(envs) ==
    /\ rpc = "idle"
    /\ nextCid <= MaxContainers
    /\ \E ref \in RunRefs : rimg' = ref
    /\ \E e \in envs : renv' = e
    /\ rcid' = 0 /\ rflag' = FALSE /\ rexit' = <<>> /\ rlogs' = <<>> /\ rhist' = {}
    /\ IF deploy.settings
       THEN rpc' = "start" /\ rres' = NoResult
       ELSE /\ rpc' = "done"
            /\ rres' = [error |-> "RunError", msg |-> "secure_default_settings.yaml not found."]
    /\ mop' = NoOp /\ sres' = NoResult
    /\ UNCHANGED <<deploy, buildVars, imageVars, contVars>>

\* run_agent(image_ref): no extra_env.
RunCallWithoutPolicy ==
    /\ rpc = "idle"
    /\ nextCid <= MaxContainers
    /\ \E ref \in RunRefs : rimg' = ref
    /\ renv' = EmptyEnv
    /\ rcid' = 0 /\ rflag' = FALSE /\ rexit' = <<>> /\ rlogs' = <<>> /\ rhist' = {}
    /\ rpc' = "start" /\ rres' = NoResult
    /\ mop' = NoOp /\ sres' = NoResult
    /\ UNCHANGED <<deploy, buildVars, imageVars, contVars>>
RunCall == RunCallWith({EmptyEnv})

\* Lines 62-72: client.containers.run(image_ref, detach=True, ...). The engine
\* reports a missing image, fails for another reason (and may then leave the
\* container it created behind), or starts the container.
RunStart ==
    /\ rpc = "start"
    /\ IF ResolveRef(images, tags, rimg) = 0
       THEN /\ rres' = [error |-> "RunError", msg |-> start_error(0), ref |-> rimg]
            /\ rpc' = "done"
            /\ UNCHANGED <<containers, nextCid, rcid>>
       ELSE LET c == Container(nextCid, <<"run", nextCid>>, ResolveRef(images, tags, rimg),
                               NoLabels, start_arguments(deploy.policy, renv), <<>>, NoArgs)
            IN  \/ \E out \in Outputs :
                      /\ containers' = containers \cup {[c EXCEPT !.output = Lines(out)]}
                      /\ nextCid' = nextCid + 1
                      /\ rcid' = nextCid
                      /\ rpc' = "wait"
                      /\ UNCHANGED rres
                \/ /\ rres' = [error |-> "RunError", ref |-> rimg,
                                 msg |-> start_error(ResolveRef(images, tags, rimg))]
                   /\ rpc' = "done"
                   /\ \/ /\ containers' = containers \cup {[c EXCEPT !.status = "created"]}
                         /\ nextCid' = nextCid + 1
                      \/ UNCHANGED <<containers, nextCid>>
                   /\ UNCHANGED rcid
    /\ UNCHANGED <<deploy, buildVars, imageVars, mop, rimg, renv, rflag, rexit, rlogs, rhist, sres>>

\* Lines 77-81: container.wait(timeout=time_limit) returns the status of a
\* container that exited, or raises: the time limit elapsed with the container
\* still running, or the engine failed for another reason.
RunWaitUnbounded ==
    /\ rpc = "wait"
    /\ \/ /\ Exists(rcid) /\ ~ Running(rcid)
          /\ rexit' = <<ById(rcid).exit_code>>
          /\ rpc' = "logs"
          /\ rhist' = rhist \cup {"exited"}
          /\ UNCHANGED rflag
    /\ UNCHANGED <<deploy, buildVars, imageVars, mop, contVars, rimg, renv, rcid, rlogs, rres, sres>>
RunWait ==
    /\ rpc = "wait"
    /\ \/ /\ Exists(rcid) /\ ~ Running(rcid)
          /\ rexit' = <<ById(rcid).exit_code>>
          /\ rpc' = "logs"
          /\ rhist' = rhist \cup {"exited"}
          /\ UNCHANGED rflag
       \/ /\ Running(rcid)
          /\ rflag' = TRUE
          /\ rpc' = "stop"
          /\ rhist' = rhist \cup {"limit"}
          /\ UNCHANGED rexit
       \/ /\ rflag' = TRUE
          /\ rpc' = "stop"
          /\ rhist' = rhist \cup {"wait_error"}
          /\ UNCHANGED rexit
    /\ UNCHANGED <<deploy, buildVars, imageVars, mop, contVars, rimg, renv, rcid, rlogs, rres, sres>>

\* Lines 82-85: container.stop(timeout=stop_timeout); a failure is swallowed.
RunStopFailureSkipsKill ==
    /\ rpc = "stop"
    /\ \/ /\ Exists(rcid)
          /\ containers' = Replace(ById(rcid),
                                   IF Running(rcid) THEN Killed(ById(rcid)) ELSE ById(rcid))
          /\ rpc' = "kill"
          /\ UNCHANGED rexit
       \/ /\ UNCHANGED containers
          /\ rpc' = "logs"
          /\ rexit' = <<TimeoutExitCode>>
    /\ UNCHANGED <<deploy, buildVars, imageVars, mop, nextCid, rimg, renv, rcid, rflag,
                   rlogs, rres, rhist, sres>>
RunStop ==
    /\ rpc = "stop"
    /\ \/ /\ Exists(rcid)
          /\ containers' = Replace(ById(rcid),
                                   IF Running(rcid) THEN Killed(ById(rcid)) ELSE ById(rcid))
       \/ UNCHANGED containers
    /\ rpc' = "kill"
    /\ UNCHANGED <<deploy, buildVars, imageVars, mop, nextCid, rimg, renv, rcid, rflag, rexit,
                   rlogs, rres, rhist, sres>>

\* Lines 86-90: container.kill(); the engine refuses when the container is not
\* running; a failure is swallowed. Then exit_code = 124.
RunKillKeepsStatus ==
    /\ rpc = "kill"
    /\ \/ /\ Running(rcid)
          /\ containers' = Replace(ById(rcid), Killed(ById(rcid)))
          /\ rexit' = <<Killed(ById(rcid)).exit_code>>
       \/ /\ UNCHANGED containers
          /\ rexit' = <<IF Exists(rcid) THEN ById(rcid).exit_code ELSE TimeoutExitCode>>
    /\ rpc' = "logs"
    /\ UNCHANGED <<deploy, buildVars, imageVars, mop, nextCid, rimg, renv, rcid, rflag, rlogs,
                   rres, rhist, sres>>
RunKill ==
    /\ rpc = "kill"
    /\ \/ /\ Running(rcid)
          /\ containers' = Replace(ById(rcid), Killed(ById(rcid)))
       \/ UNCHANGED containers
    /\ rexit' = <<TimeoutExitCode>>
    /\ rpc' = "logs"
    /\ UNCHANGED <<deploy, buildVars, imageVars, mop, nextCid, rimg, renv, rcid, rflag, rlogs,
                   rres, rhist, sres>>

\* Lines 92-97: container.logs(stdout, stderr, tail=log_tail), decoded; b"" when
\* the engine fails.
RunLogsFailureEscapes ==
    /\ rpc = "logs"
    /\ \/ /\ Exists(rcid)
          /\ rlogs' = returned_logs(LogsTail(ById(rcid).output, deploy.log_tail))
          /\ rpc' = "remove"
          /\ UNCHANGED rres
       \/ /\ rpc' = "done"
          /\ rres' = [error |-> "docker.errors.APIError"]
          /\ UNCHANGED rlogs
    /\ UNCHANGED <<deploy, buildVars, imageVars, mop, contVars, rimg, renv, rcid, rflag, rexit,
                   rhist, sres>>
RunLogs ==
    /\ rpc = "logs"
    /\ \/ /\ Exists(rcid)
          /\ rlogs' = returned_logs(LogsTail(ById(rcid).output, deploy.log_tail))
       \/ rlogs' = returned_logs(<<>>)
    /\ rpc' = "remove"
    /\ UNCHANGED <<deploy, buildVars, imageVars, mop, contVars, rimg, renv, rcid, rflag, rexit,
                   rres, rhist, sres>>

\* Lines 99-109: container.remove(force=True), a failure swallowed; the result.
RunRemove ==
    /\ rpc = "remove"
    /\ \/ /\ Exists(rcid)
          /\ containers' = { c \in containers : c.id # rcid }
          /\ rhist' = rhist \cup {"remove"}
       \/ /\ UNCHANGED containers
          /\ rhist' = rhist \cup {"remove_failed"}
    /\ rres' = [error |-> None, exit_code |-> rexit[1], timeout |-> rflag, logs |-> rlogs,
                container_id |-> rcid]
    /\ rpc' = "done"
    /\ UNCHANGED <<deploy, buildVars, imageVars, mop, nextCid, rimg, renv, rcid, rflag, rexit,
                   rlogs, sres>>

\* The caller takes the result or the RunError of the call; the frame of
\* run_agent is gone.
RunReturn ==
    /\ rpc = "done"
    /\ rpc' = "idle" /\ rimg' = NoArgs /\ renv' = EmptyEnv /\ rcid' = 0 /\ rflag' = FALSE
    /\ rexit' = <<>>
    /\ rlogs' = <<>> /\ rres' = NoResult /\ rhist' = {}
    /\ UNCHANGED <<deploy, buildVars, imageVars, mop, contVars, sres>>

-----------------------------------------------------------------------------
(* agent_runner.py: start_agent_container. *)

\* Lines 145-146: the default container name.
default_name(match_id, agent_id) == <<"match", match_id, "agent", agent_id>>

\* Lines 148-153: the labels of a match container.
container_labels_swapped(match_id, agent_id, owner_id) ==
    (<<"org.gameai", "kind">> :> "agent-container")
    @@ (<<"org.gameai", "owner_id">> :> owner_id)
    @@ (<<"org.gameai", "agent_id">> :> match_id)
    @@ (<<"org.gameai", "match_id">> :> agent_id)
container_labels(match_id, agent_id, owner_id) ==
    (<<"org.gameai", "kind">> :> "agent-container")
    @@ (<<"org.gameai", "owner_id">> :> owner_id)
    @@ (<<"org.gameai", "agent_id">> :> agent_id)
    @@ (<<"org.gameai", "match_id">> :> match_id)

\* The match, agent and owner ids of the calls of the model.
StartIds == { <<"m1", "a1", "o1">>, <<"m1", "a2", "o2">> }

\* The caller of the model makes one call at a time: start_agent_container and
\* the manager's container calls are made between run_agent calls, and each call
\* drops the result of the other calls before it. The containers themselves
\* exit at any moment (ContainerExit), also in the middle of a run_agent call.
\*
\* start_agent_container(image_ref, match_id=, agent_id=, owner_id=). The engine
\* reports a missing image, refuses a name that is in use, fails for another
\* reason, or starts the container. The result's first key is spelled as in
\* line 170.
StartAgentContainerNameReused(envs) ==
    /\ rpc = "idle"
    /\ nextCid <= MaxContainers
    /\ \E ref \in RunRefs, ids \in StartIds, extra_env \in envs, engine_ok \in BOOLEAN :
          LET name == default_name(ids[1], ids[2])
              labels == container_labels(ids[1], ids[2], ids[3])
              call == [image_ref |-> ref, match_id |-> ids[1], agent_id |-> ids[2],
                       owner_id |-> ids[3], extra_env |-> extra_env]
          IN  IF ~ deploy.settings
              THEN /\ sres' = [error |-> "RunError", call |-> call,
                               msg |-> "secure_default_settings.yaml not found."]
                   /\ UNCHANGED <<containers, nextCid>>
              ELSE IF ResolveRef(images, tags, ref) = 0
              THEN /\ sres' = [error |-> "RunError", call |-> call, msg |-> start_error(0)]
                   /\ UNCHANGED <<containers, nextCid>>
              ELSE IF ~ engine_ok
              THEN /\ sres' = [error |-> "RunError", call |-> call,
                               msg |-> start_error(ResolveRef(images, tags, ref))]
                   /\ UNCHANGED <<containers, nextCid>>
              ELSE /\ containers' = containers \cup
                         {Container(nextCid, name, ResolveRef(images, tags, ref), labels,
                                    start_arguments(deploy.policy, extra_env), Lines(0),
                                    [match_id |-> ids[1], agent_id |-> ids[2],
                                     owner_id |-> ids[3]])}
                   /\ nextCid' = nextCid + 1
                   /\ sres' = [error |-> None, call |-> call, conatiner_id |-> nextCid,
                               name |-> name, image |-> ref]
    /\ mop' = NoOp
    /\ UNCHANGED <<deploy, buildVars, imageVars, runVars>>
StartAgentContainerWith(envs) ==
    /\ rpc = "idle"
    /\ nextCid <= MaxContainers
    /\ \E ref \in RunRefs, ids \in StartIds, extra_env \in envs, engine_ok \in BOOLEAN :
          LET name == default_name(ids[1], ids[2])
              labels == container_labels(ids[1], ids[2], ids[3])
              call == [image_ref |-> ref, match_id |-> ids[1], agent_id |-> ids[2],
                       owner_id |-> ids[3], extra_env |-> extra_env]
          IN  IF ~ deploy.settings
              THEN /\ sres' = [error |-> "RunError", call |-> call,
                               msg |-> "secure_default_settings.yaml not found."]
                   /\ UNCHANGED <<containers, nextCid>>
              ELSE IF ResolveRef(images, tags, ref) = 0
              THEN /\ sres' = [error |-> "RunError", call |-> call, msg |-> start_error(0)]
                   /\ UNCHANGED <<containers, nextCid>>
              ELSE IF (\E c \in containers : c.name = name) \/ ~ engine_ok
              THEN /\ sres' = [error |-> "RunError", call |-> call,
                               msg |-> start_error(ResolveRef(images, tags, ref))]
                   /\ UNCHANGED <<containers, nextCid>>
              ELSE /\ containers' = containers \cup
                         {Container(nextCid, name, ResolveRef(images, tags, ref), labels,
                                    start_arguments(deploy.policy, extra_env), Lines(0),
                                    [match_id |-> ids[1], agent_id |-> ids[2],
                                     owner_id |-> ids[3]])}
                   /\ nextCid' = nextCid + 1
                   /\ sres' = [error |-> None, call |-> call, conatiner_id |-> nextCid,
                               name |-> name, image |-> ref]
    /\ mop' = NoOp
    /\ UNCHANGED <<deploy, buildVars, imageVars, runVars>>

\* start_agent_container(image_ref, match_id=, agent_id=, owner_id=): no extra_env.
StartAgentContainer == StartAgentContainerWith({EmptyEnv})

-----------------------------------------------------------------------------
(* agent_manager.py: containers. *)

\* The engine's containers.list(all=, filters={"label": [...]}): the containers
\* that carry every label of the filter, the running ones only unless all.
EngineList(all, filter) ==
    { c \in containers :
        /\ all \/ c.status = "running"
        /\ \A k \in DOMAIN filter : Get(c.labels, k) = filter[k] }

\* Lines 91-100: the label filters of list_agent_containers.
label_filters_no_kind(match_id, owner_id, agent_id) ==
    [k \in { x \in {LABEL_MATCH_ID, LABEL_OWNER_ID, LABEL_AGENT_ID} :
                \/ (x = LABEL_MATCH_ID /\ match_id # None)
                \/ (x = LABEL_OWNER_ID /\ owner_id # None)
                \/ (x = LABEL_AGENT_ID /\ agent_id # None) }
       |-> IF k = LABEL_MATCH_ID THEN match_id
           ELSE IF k = LABEL_OWNER_ID THEN owner_id
           ELSE agent_id]
label_filters(match_id, owner_id, agent_id) ==
    (LABEL_KIND :> KIND_CONTAINER_AGENT)
    @@ label_filters_no_kind(match_id, owner_id, agent_id)

\* list_agent_containers(match_id, owner_id, agent_id, include_exited): the ids listed.
list_agent_containers(match_id, owner_id, agent_id, include_exited) ==
    { c.id : c \in EngineList(include_exited, label_filters(match_id, owner_id, agent_id)) }

ListAgentContainers ==
    /\ rpc = "idle"
    /\ sres' = NoResult
    /\ \E ids \in StartIds, use \in SUBSET {"m", "o", "a"}, include_exited \in BOOLEAN :
          LET m == IF "m" \in use THEN ids[1] ELSE None
              a == IF "a" \in use THEN ids[2] ELSE None
              o == IF "o" \in use THEN ids[3] ELSE None
          IN  mop' = [op |-> "list_agent_containers", match_id |-> m, owner_id |-> o,
                      agent_id |-> a, include_exited |-> include_exited,
                      result |-> list_agent_containers(m, o, a, include_exited)]
    /\ UNCHANGED <<deploy, buildVars, imageVars, contVars, runVars>>

\* The containers a caller of the manager names: the match containers.
Managed == { c \in containers : Get(c.labels, LABEL_KIND) = KIND_CONTAINER_AGENT }

\* get_container_logs(container_id): the decoded tail of the container's output
\* (tail = 1000, line 130), or ManagementError when the engine fails.
GetContainerLogs ==
    /\ rpc = "idle"
    /\ sres' = NoResult
    /\ \E c \in Managed, engine_ok \in BOOLEAN :
          mop' = IF engine_ok
                 THEN [op |-> "get_container_logs", container_id |-> c.id, error |-> None,
                       result |-> returned_logs(LogsTail(c.output, 1000))]
                 ELSE [op |-> "get_container_logs", container_id |-> c.id,
                       error |-> "ManagementError"]
    /\ UNCHANGED <<deploy, buildVars, imageVars, contVars, runVars>>

\* Lines 181-201: cpu_percent from the deltas of one stats sample; 0.0 unless
\* both deltas are positive and the engine reports cpus. The model keeps the
\* integer part.
cpu_percent(cpu_delta, system_delta, cpus) ==
    IF system_delta > 0 /\ cpu_delta > 0 /\ cpus > 0
    THEN (cpu_delta * cpus * 100) \div system_delta
    ELSE 0

\* get_container_stats(container_id); the samples of the engine are cpu delta,
\* system delta and online cpus.
GetContainerStats ==
    /\ rpc = "idle"
    /\ sres' = NoResult
    /\ \E c \in Managed, engine_ok \in BOOLEAN, sample \in { <<0, 0, 1>>, <<1, 2, 1>>, <<1, 2, 0>> } :
          mop' = IF engine_ok
                 THEN [op |-> "get_container_stats", container_id |-> c.id, error |-> None,
                       result |-> [cpu_percent |-> cpu_percent(sample[1], sample[2], sample[3])]]
                 ELSE [op |-> "get_container_stats", container_id |-> c.id,
                       error |-> "ManagementError"]
    /\ UNCHANGED <<deploy, buildVars, imageVars, contVars, runVars>>

\* stop_agent_container(container_id, timeout)
StopAgentContainerRemoves ==
    /\ rpc = "idle"
    /\ sres' = NoResult
    /\ \E c \in Managed, engine_ok \in BOOLEAN :
          IF engine_ok
          THEN /\ containers' = containers \ {c}
               /\ mop' = [op |-> "stop_agent_container", container_id |-> c.id,
                          error |-> None]
          ELSE /\ UNCHANGED containers
               /\ mop' = [op |-> "stop_agent_container", container_id |-> c.id,
                          error |-> "ManagementError"]
    /\ UNCHANGED <<deploy, buildVars, imageVars, nextCid, runVars>>

StopAgentContainer ==
    /\ rpc = "idle"
    /\ sres' = NoResult
    /\ \E c \in Managed, engine_ok \in BOOLEAN :
          IF engine_ok
          THEN /\ containers' = Replace(c, IF c.status = "running" THEN Killed(c) ELSE c)
               /\ mop' = [op |-> "stop_agent_container", container_id |-> c.id,
                          error |-> None]
          ELSE /\ UNCHANGED containers
               /\ mop' = [op |-> "stop_agent_container", container_id |-> c.id,
                          error |-> "ManagementError"]
    /\ UNCHANGED <<deploy, buildVars, imageVars, nextCid, runVars>>

\* delete_agent_container(container_id, force): the engine refuses to remove a
\* running container unless forced.
DeleteAgentContainer ==
    /\ rpc = "idle"
    /\ sres' = NoResult
    /\ \E c \in Managed, force \in BOOLEAN :
          IF c.status = "running" /\ ~ force
          THEN /\ UNCHANGED containers
               /\ mop' = [op |-> "delete_agent_container", container_id |-> c.id,
                          error |-> "ManagementError"]
          ELSE /\ containers' = containers \ {c}
               /\ mop' = [op |-> "delete_agent_container", container_id |-> c.id,
                          error |-> None]
    /\ UNCHANGED <<deploy, buildVars, imageVars, nextCid, runVars>>

-----------------------------------------------------------------------------
(* Runs and match containers on a store that holds one built image. *)

RunZip == [valid |-> TRUE, members |-> << Member(agent_py, <<"c">>) >>]

\* The image store after build_from_zip(RunZip, "o1") under deployment d.
BuiltOnce(d) ==
    LET args == BuildArgs(RunZip, "o1", DefaultPrefix, DefaultLabelNs)
        tree == inject(extractall(EmptyTree, RunZip.members), d)
        sha == content_hash(tree)
        labels == build_labels(DefaultLabelNs, "o1", sha, 1)
    IN  [images |-> {[id |-> 1, labels |-> labels]},
         tags |-> (full_tag_of(args, sha) :> 1),
         builds |-> << [args |-> args, tree |-> tree, image_id |-> 1,
                        tag |-> full_tag_of(args, sha), labels |-> labels] >>]

InitRun ==
    /\ deploy \in { d \in Deployments : /\ d.dockerfile /\ d.base_reqs /\ d.default_ignore
                                        /\ (d.settings \/ d.log_tail = DefaultLogTail)
                                        /\ d.policy = DefaultPolicy }
    /\ BuildIdle
    /\ tmpdirs = {}
    /\ images = BuiltOnce(deploy).images
    /\ tags = BuiltOnce(deploy).tags
    /\ builds = BuiltOnce(deploy).builds
    /\ clock = 1
    /\ mop = NoOp
    /\ ContainersEmpty /\ RunIdle

NextRun ==
    \/ RunCall
    \/ RunStart
    \/ RunWait
    \/ RunStop
    \/ RunKill
    \/ RunLogs
    \/ RunRemove
    \/ RunReturn
    \/ ContainerExit
    \/ StartAgentContainer
    \/ ListAgentContainers
    \/ StopAgentContainer
    \/ DeleteAgentContainer

SpecRun == InitRun /\ [][NextRun]_vars

\* The match containers alone: start_agent_container and every container call
\* of the manager, while the containers exit when they will.
NextMatch ==
    \/ StartAgentContainer
    \/ ContainerExit
    \/ ListAgentContainers
    \/ GetContainerLogs
    \/ GetContainerStats
    \/ StopAgentContainer
    \/ DeleteAgentContainer

SpecMatch == InitRun /\ [][NextMatch]_vars

\* run_agent calls alone, with every step of a call that was made taken in the
\* end: each step is one engine call (or the bounded wait), and every engine
\* call returns. Nothing makes a caller call or a container exit.
NextRunAgent ==
    \/ RunCall
    \/ RunStart
    \/ RunWait
    \/ RunStop
    \/ RunKill
    \/ RunLogs
    \/ RunRemove
    \/ RunReturn
    \/ ContainerExit

EngineCallsReturn ==
    /\ WF_rpc(RunStart)
    /\ WF_rpc(RunWait)
    /\ WF_rpc(RunStop)
    /\ WF_rpc(RunKill)
    /\ WF_rpc(RunLogs)
    /\ WF_rpc(RunRemove)

SpecRunAgent == InitRun /\ [][NextRunAgent]_vars /\ EngineCallsReturn

-----------------------------------------------------------------------------
(* The two operations that start containers, under every policy mapping and
   with and without extra_env. *)

InitPolicy ==
    /\ deploy \in { d \in Deployments : /\ d.dockerfile /\ d.base_reqs /\ d.default_ignore
                                        /\ d.settings /\ d.log_tail = DefaultLogTail }
    /\ BuildIdle
    /\ tmpdirs = {}
    /\ images = BuiltOnce(deploy).images
    /\ tags = BuiltOnce(deploy).tags
    /\ builds = BuiltOnce(deploy).builds
    /\ clock = 1
    /\ mop = NoOp
    /\ ContainersEmpty /\ RunIdle

NextPolicy ==
    \/ RunCallWith(ExtraEnvs)
    \/ RunStart
    \/ RunWait
    \/ RunStop
    \/ RunKill
    \/ RunLogs
    \/ RunRemove
    \/ RunReturn
    \/ ContainerExit
    \/ StartAgentContainerWith(ExtraEnvs)

SpecPolicy == InitPolicy /\ [][NextPolicy]_vars

-----------------------------------------------------------------------------
(* Claims about build_from_zip and the image store. *)

Range(f) == { f[i] : i \in DOMAIN f }

\* The regular files of a build context with their contents.
FilesOf(tree) == [p \in RegularFiles(tree) |-> tree[p].data]

C2_TagSensitivity ==
    \A i, j \in 1..Len(builds) :
        FilesOf(builds[i].tree) # FilesOf(builds[j].tree) => builds[i].tag # builds[j].tag

\* An entry of the archive resolves to a path that is neither dst nor below it.
HasEscapingEntry ==
    /\ bargs.zip_bytes.valid
    /\ \E i \in 1..Len(bargs.zip_bytes.members) :
          ~ IsDescendant(ResolveUnder(dst, bargs.zip_bytes.members[i].filename), dst)

\* C3: when an entry of the archive resolves outside the build directory, the
\* extraction step raises BuildError "Illegal Path in ZIP" and writes no entry of
\* the archive to disk.
C3_PathEscapeRejected ==
    [][ (bpc = "extract" /\ bpc' # "extract" /\ HasEscapingEntry)
        => (/\ bres'.error = "BuildError"
            /\ bres'.msg[1] = "Illegal Path in ZIP"
            /\ disk' \subseteq disk) ]_vars

\* The top-level regular files named agent.py or ending with _agent.py.
AgentFiles(tree) ==
    { n \in TopLevel(tree) :
        /\ ~ tree[<<n>>].dir
        /\ (n = agent_py \/ endswith(n, underscore_agent_py)) }

\* C4: the entry resolution step returns a filename iff exactly one top-level
\* regular file is an agent file, and then that file's name; with none it raises
\* "No agent entry file found", with several "Multiple agent entry files found"
\* naming every one of them.
C4_EntryResolution ==
    [][ (bpc = "entry" /\ bpc' # "entry")
        => LET cands == AgentFiles(bctx)
           IN  /\ (bpc' = "inject") <=> (Cardinality(cands) = 1)
               /\ Cardinality(cands) = 1 => (bentry' \in cands /\ bres' = NoResult)
               /\ Cardinality(cands) = 0
                    => (/\ bres'.error = "BuildError"
                        /\ bres'.msg = <<"No agent entry file found">>)
               /\ Cardinality(cands) > 1
                    => (/\ bres'.error = "BuildError"
                        /\ bres'.msg[1] = "Multiple agent entry files found"
                        /\ Range(bres'.msg[2]) = cands
                        /\ Len(bres'.msg[2]) = Cardinality(cands)) ]_vars

\* The entry file was resolved at the top level while a file named agent.py lies
\* in a subdirectory of the same build context.
C4_Witness ==
    /\ bpc = "inject"
    /\ bentry = my_agent_py
    /\ << <<"s">>, agent_py >> \in DOMAIN bctx

\* The builds so far that were made for owner o.
BuildsFor(o) == { b \in Range(builds) : b.args.owner_id = o }

DefaultArgs(b) ==
    b.args.repo_prefix = DefaultPrefix /\ b.args.base_label_ns = DefaultLabelNs

ImageIds(imgs) == { i.id : i \in imgs }

\* C9: when owner o has built exactly two images with different content (default
\* arguments), both in the store, a bulk delete for o that meets no engine failure
\* returns 2 and leaves the listing of o empty; the images of the other owners
\* stay in the store, under their tags.
C9_BulkDeletion ==
    [][ \A o \in Owners :
          (/\ mop'.op = "delete_images_for_owner"
           /\ mop'.owner_id = o
           /\ mop'.error = None /\ mop'.gone = 0
           /\ Cardinality(BuildsFor(o)) = 2
           /\ \A b \in BuildsFor(o) : DefaultArgs(b) /\ b.image_id \in ImageIds(images)
           /\ \A b, c \in BuildsFor(o) : b # c => FilesOf(b.tree) # FilesOf(c.tree))
          => (/\ mop'.count = 2
              /\ list_agent_images(images', tags', o) = {}
              /\ \A b \in BuildsFor(o) : b.image_id \notin ImageIds(images')
              /\ \A b \in Range(builds) \ BuildsFor(o) :
                    /\ b.image_id \in ImageIds(images) => b.image_id \in ImageIds(images')
                    /\ ResolveRef(images, tags, TagRef(b.tag)) = b.image_id
                         => ResolveRef(images', tags', TagRef(b.tag)) = b.image_id) ]_vars

\* C10: two successful builds of the same archive for two different owners return
\* two different image ids and two different tags.
C10_TagCollisionPrevented ==
    \A i, j \in 1..Len(builds) :
        (/\ builds[i].args.zip_bytes = builds[j].args.zip_bytes
         /\ builds[i].args.owner_id # builds[j].args.owner_id)
        => (/\ builds[i].image_id # builds[j].image_id
            /\ builds[i].tag # builds[j].tag)

-----------------------------------------------------------------------------
(* Claims about run_agent, start_agent_container and the container listing. *)

\* The run_agent call has returned a result and its wait ended because the time
\* limit elapsed with the container still running.
TimedOutRun == rpc = "done" /\ rres.error = None /\ "limit" \in rhist

\* C5 (as stated): whenever the container started by run_agent has not exited
\* when the time limit elapses, the result has timeout = True and exit_code = 124
\* and the container no longer exists when the call returns.
C5_TimeoutEnforcement ==
    TimedOutRun =>
        /\ rres.timeout = TRUE
        /\ rres.exit_code = TimeoutExitCode
        /\ ~ Exists(rres.container_id)

\* C5 (amended): whenever the container started by run_agent has not exited when
\* the time limit elapses, the result has timeout = True and exit_code = 124, and
\* the container no longer exists when the call returns unless the engine failed
\* the forced removal (a failure the call swallows).
C5_TimeoutEnforcedRemovalBestEffort ==
    TimedOutRun =>
        /\ rres.timeout = TRUE
        /\ rres.exit_code = TimeoutExitCode
        /\ ("remove_failed" \notin rhist => ~ Exists(rres.container_id))

\* A timed-out run whose container the engine had stopped with its own status,
\* returned with the container removed.
C5_Witness ==
    /\ TimedOutRun
    /\ rres.timeout = TRUE /\ rres.exit_code = TimeoutExitCode
    /\ "remove" \in rhist
    /\ ~ Exists(rres.container_id)

\* The marker the claim appends to logs that were cut.
TruncationMarker == <<"Logs truncated due to size limit">>

\* The logs C6 describes for the raw logs read: cut at the ceiling and followed
\* by the marker when they exceed it, unmodified otherwise.
truncated_logs(raw) ==
    IF Len(raw) > LogCeilingMiB
    THEN SubSeq(raw, 1, LogCeilingMiB) \o <<TruncationMarker>>
    ELSE raw

\* C6: the logs run_agent returns never exceed the 5 MiB ceiling plus the marker;
\* when the captured output exceeds the ceiling they are its prefix cut at the
\* ceiling followed by 'Logs truncated due to size limit', otherwise they are the
\* captured output unmodified.
C6_LogTruncation ==
    [][(rpc = "logs" /\ rpc' = "remove")
          => /\ Len(rlogs') <= LogCeilingMiB + 1
             /\ rlogs' \in { truncated_logs(<<>>),
                             truncated_logs(LogsTail(ById(rcid).output, deploy.log_tail)) }]_vars

\* C7: run_agent or start_agent_container on an image reference that names no
\* image raises RunError 'Image not found: <ref>' and creates no container; any
\* other failure of the start step raises RunError 'Failed to start container';
\* nothing but a RunError leaves the start step.
C7_UnknownImage ==
    [][/\ (rpc = "start" /\ rpc' = "done")
            => /\ rres'.error = "RunError"
               /\ rres'.ref = rimg
               /\ IF ResolveRef(images, tags, rimg) = 0
                  THEN rres'.msg = "Image not found" /\ containers' = containers
                  ELSE rres'.msg = "Failed to start container"
       /\ (rpc = "start" /\ rpc' \notin {"start", "done"})
            => (rpc' = "wait" /\ rres' = NoResult /\ ResolveRef(images, tags, rimg) # 0)
       /\ (sres' # sres /\ sres' # NoResult /\ deploy.settings)
            => \/ sres'.error = None /\ ResolveRef(images, tags, sres'.call.image_ref) # 0
               \/ /\ sres'.error = "RunError"
                  /\ containers' = containers
                  /\ IF ResolveRef(images, tags, sres'.call.image_ref) = 0
                     THEN sres'.msg = "Image not found"
                     ELSE sres'.msg = "Failed to start container"]_vars

\* run_agent on a reference that names no image has raised 'Image not found'.
C7_Witness ==
    /\ rpc = "done"
    /\ rres.error = "RunError" /\ rres.msg = "Image not found" /\ rres.ref = MissingRef
    /\ ResolveRef(images, tags, rimg) = 0

\* The containers that start_agent_container started with ids that agree with
\* every filter of the listing l.
StartedMatching(l) ==
    { c \in containers :
        /\ c.call # NoArgs
        /\ l.match_id # None => c.call.match_id = l.match_id
        /\ l.owner_id # None => c.call.owner_id = l.owner_id
        /\ l.agent_id # None => c.call.agent_id = l.agent_id }

\* A step that is a call of list_agent_containers.
ListingStep == mop' # mop /\ mop'.op = "list_agent_containers"

\* C8 (as stated): a container started by start_agent_container(match_id=m,
\* agent_id=a, owner_id=o) is returned by list_agent_containers filtered by any
\* subset of the same m, o, a until delete_agent_container removed it, and a
\* container started with different ids is never returned by that filter.
C8_LabelRoundTrip ==
    [][(ListingStep /\ ~ mop'.include_exited)
          => mop'.result = { c.id : c \in StartedMatching(mop') }]_vars

\* C8 (amended): list_agent_containers filtered by any subset of m, o, a returns
\* exactly the containers started with those ids and not deleted, of which the
\* default listing (include_exited=False) returns only those still running;
\* with include_exited=True it returns the exited ones too.
C8_LabelRoundTripWhileRunning ==
    [][ListingStep
          => mop'.result = { c.id : c \in { d \in StartedMatching(mop') :
                                               mop'.include_exited \/ d.status = "running" } }]_vars

\* A listing by agent id that returned one of two started containers.
C8_Witness ==
    /\ mop.op = "list_agent_containers"
    /\ mop.agent_id # None /\ mop.match_id = None /\ mop.owner_id = None
    /\ \E c \in containers : c.call # NoArgs /\ c.id \in mop.result
    /\ \E c \in containers : c.call # NoArgs /\ c.id \notin mop.result /\ c.status = "running"

-----------------------------------------------------------------------------
(* Further claims about build_from_zip and the image store. *)

\* A step in which a build_from_zip call returned its result.
BuildSucceeds == Len(builds') = Len(builds) + 1

\* C11: a successful build never steals a tag: every tag an earlier build
\* returned, if it resolved to that build's image before the step, still does
\* afterwards, and no earlier image that had a tag is left without one.
C11_TagsNeverStolen ==
    [][BuildSucceeds
          => \A i \in 1..Len(builds) :
                /\ ResolveRef(images, tags, TagRef(builds[i].tag)) = builds[i].image_id
                     => ResolveRef(images', tags', TagRef(builds[i].tag)) = builds[i].image_id
                /\ TagsOf(tags, builds[i].image_id) # {}
                     => TagsOf(tags', builds[i].image_id) # {}]_vars

\* C12: an image built with default arguments, as long as it is in the store,
\* carries its owner under 'org.gameai.owner_id' and kind 'agent' under
\* 'org.gameai.kind', and list_agent_images(owner_id=o) has an entry for it with
\* its tags, owner id, created_at and content hash.
C12_LabelAgreement ==
    \A i \in 1..Len(builds) :
        (DefaultArgs(builds[i]) /\ builds[i].image_id \in ImageIds(images))
        => /\ Get(builds[i].labels, LABEL_OWNER_ID) = builds[i].args.owner_id
           /\ Get(builds[i].labels, LABEL_KIND) = KIND_IMAGE_AGENT
           /\ DOMAIN builds[i].labels
                = { LABEL_KIND, LABEL_OWNER_ID, <<LABEL_NS, "created_at">>,
                    <<LABEL_NS, "content_sha256">> }
           /\ \E e \in list_agent_images(images, tags, builds[i].args.owner_id) :
                 /\ e.image_id = builds[i].image_id
                 /\ e.owner_id = builds[i].args.owner_id
                 /\ e.tags = TagsOf(tags, builds[i].image_id)
                 /\ e.created_at = builds[i].labels[<<LABEL_NS, "created_at">>]
                 /\ e.content_sha256 = content_hash(builds[i].tree)

\* C16: when a build_from_zip call has returned or raised, its temporary build
\* directory and everything below it no longer exists, whichever way it ended.
C16_BuildContextCleanup ==
    bpc \in {"idle", "done"} => (tmpdirs = {} /\ disk = {} /\ btmp = <<>>)

\* A build whose context had been created and filled ended with a failure of
\* the entry resolution, and no temporary directory is left.
C16_Witness ==
    /\ bpc = "done"
    /\ bres.error = "BuildError"
    /\ bres.msg = <<"No agent entry file found">>
    /\ bargs.zip_bytes.valid /\ Len(bargs.zip_bytes.members) > 0
    /\ tmpdirs = {} /\ disk = {}

\* C20: a build_from_zip call on bytes that are not a zip archive raises
\* BuildError and does not invoke the build engine.
C20_MalformedArchive ==
    (bpc = "done" /\ deploy.dockerfile /\ ~ bargs.zip_bytes.valid)
        => (bres.error = "BuildError" /\ engineCalls = 0)

-----------------------------------------------------------------------------
(* Further claims about run_agent and start_agent_container. *)

\* C13: a successful start_agent_container returns exactly the keys
\* container_id, name and image: the id of the container it started, that
\* container's name, and the image reference passed in.
C13_StartResult ==
    sres.error = None
        => /\ DOMAIN sres \ {"error", "call"} = {"container_id", "name", "image"}
           /\ Exists(sres.container_id)
           /\ ById(sres.container_id).name = sres.name
           /\ ById(sres.container_id).call = [match_id |-> sres.call.match_id,
                                              agent_id |-> sres.call.agent_id,
                                              owner_id |-> sres.call.owner_id]
           /\ sres.image = sres.call.image_ref

\* C14: with the policy file missing, run_agent and start_agent_container raise
\* RunError and no container is ever created; a call gets to its start step only
\* with the policy loaded.
C14_FailClosed ==
    ~ deploy.settings
        => /\ containers = {}
           /\ rpc \in {"idle", "done"}
           /\ rpc = "done" => rres.error = "RunError"
           /\ sres # NoResult => sres.error = "RunError"

\* run_agent was called with the policy file missing and raised RunError.
C14_Witness ==
    /\ ~ deploy.settings
    /\ rpc = "done"
    /\ rres.error = "RunError"
    /\ rres.msg = "secure_default_settings.yaml not found."
    /\ containers = {}

\* C17: once run_agent has created its container the call never raises; it
\* returns a result only after it attempted the forced removal, and the result is
\* what was captured before the removal, whether the removal failed or not.
C17_SelfCleaningRun ==
    /\ rcid # 0 => (rpc \in {"wait", "stop", "kill", "logs", "remove", "done"}
                    /\ rres.error \in {"unset", None})
    /\ (rpc = "done" /\ rcid # 0)
         => /\ rres.error = None
            /\ rhist \cap {"remove", "remove_failed"} # {}
            /\ rres.container_id = rcid
            /\ rres.timeout = rflag
            /\ rres.exit_code = rexit[1]
            /\ rres.logs = rlogs
    /\ (rpc \in {"wait", "stop", "kill", "logs", "remove"})
         => rhist \cap {"remove", "remove_failed"} = {}

\* A run whose wait failed and whose forced removal failed returned its result.
C17_Witness ==
    /\ rpc = "done"
    /\ "wait_error" \in rhist /\ "remove_failed" \in rhist
    /\ rres.error = None
    /\ Exists(rcid)

\* C18: when the wait of run_agent ends by the time limit, the graceful stop is
\* attempted first and the kill after it, whether the stop failed or not; the
\* kill ends a container that is still running unless the engine fails it; then
\* the logs are read, the removal is attempted and the result returned, whatever
\* failed before.
C18_TwoStepEscalation ==
    [][/\ (rpc = "wait" /\ rpc' # "wait" /\ rflag') => rpc' = "stop"
       /\ (rpc = "stop" /\ rpc' # "stop") => rpc' = "kill"
       /\ (rpc # "kill" /\ rpc' = "kill") => rpc = "stop"
       /\ (rpc = "kill" /\ rpc' # "kill")
            => /\ rpc' = "logs"
               /\ Running(rcid) => (containers' = containers
                                    \/ containers' = Replace(ById(rcid), Killed(ById(rcid))))
       /\ (rpc = "logs" /\ rpc' # "logs") => rpc' = "remove"
       /\ (rpc = "remove" /\ rpc' # "remove")
            => (rpc' = "done" /\ rres'.error = None /\ rres'.timeout = rflag)]_vars

\* After a timeout the stop failed, the kill ended the container, and the call
\* went on to read the logs.
C18_Witness ==
    /\ rpc = "logs"
    /\ "limit" \in rhist
    /\ rflag
    /\ Exists(rcid) /\ ~ Running(rcid)
    /\ rexit = <<TimeoutExitCode>>

\* C19: every run_agent call that was made returns a result or raises RunError
\* in the end, also when the container never exits by itself; the call enters its
\* wait once, from the start step, and leaves it for good.
C19_BoundedBlocking ==
    /\ (rpc \in {"start", "wait", "stop", "kill", "logs", "remove"}) ~> (rpc = "done")
    /\ [][/\ (rpc # "wait" /\ rpc' = "wait") => rpc = "start"
          /\ (rpc = "wait" /\ rpc' # "wait") => rpc' \in {"stop", "logs"}
          /\ rpc \in {"stop", "kill", "logs", "remove"} => rpc' # "wait"]_vars

\* A call returned with timeout = True while its container, which never exited
\* by itself, had to be ended by the call.
C19_Witness ==
    /\ rpc = "done"
    /\ rres.error = None
    /\ rres.timeout = TRUE
    /\ "limit" \in rhist
    /\ \A c \in containers : c.id = rcid => c.exit_code \notin ExitCodes

\* The extra_env of the call that makes a step: run_agent's if its start step is
\* due, else the one of the start_agent_container call that returns.
CallEnv == IF rpc = "start" THEN renv ELSE sres'.call.extra_env

\* The containers a step starts.
StartedNow == { c \in containers' : c.id \notin { d.id : d \in containers } }

\* The fields of the policy source that the specification documents.
DocumentedFields == allowed \cup {"env", "time_limit_seconds", "log_tail", "stop_timeout"}

AgreeOnDocumented(p, q) ==
    \A k \in DocumentedFields :
        /\ k \in DOMAIN p <=> k \in DOMAIN q
        /\ k \in DOMAIN p => p[k] = q[k]

\* C15: every container run_agent or start_agent_container starts gets engine
\* arguments from the policy source whose keys are all on the allow-list, and the
\* arguments are the ones any policy source gives that agrees with the one in
\* force on the documented fields.
C15_PolicyAllowList ==
    [][\A c \in StartedNow :
          /\ DOMAIN c.args.kwargs \subseteq allowed
          /\ c.args.kwargs = [k \in allowed \cap DOMAIN deploy.policy |-> deploy.policy[k]]
          /\ \A q \in PolicySources :
                AgreeOnDocumented(q, deploy.policy)
                    => start_arguments(q, CallEnv) = c.args]_vars

\* run_agent started its container under a policy source that has an allowed key
\* and an unknown one.
C15_Witness ==
    /\ rpc = "wait" /\ Exists(rcid)
    /\ {"network_mode", "privileged"} \subseteq DOMAIN deploy.policy
    /\ DOMAIN ById(rcid).args.kwargs = {"network_mode"}
    /\ ById(rcid).args.kwargs["network_mode"] = deploy.policy["network_mode"]

-----------------------------------------------------------------------------
(* Claims about the failures and the order of the steps of build_from_zip. *)

\* C21: a build_from_zip call in which the engine was invoked and failed raises
\* the module's BuildError.
C21_EngineFailureWrapped ==
    (bpc = "done" /\ engineCalls > 0 /\ bres.error # None) => bres.error = "BuildError"

\* The images that leave the store in a step.
Removed == ImageIds(images) \ ImageIds(images')

-----------------------------------------------------------------------------
(* Further claims about the containers of run_agent and start_agent_container. *)

\* C23: the environment of every container that run_agent or
\* start_agent_container starts has the keys of the policy's env and of extra_env
\* and no other; a key of extra_env has the caller's value, every other key the
\* policy's; the policy arguments are those of the policy, so that both operations
\* pass the same for the same policy and extra_env; the policy is not changed.
C23_EnvironmentMerge ==
    [][\A c \in StartedNow :
          LET env == c.args.environment
              policy_env == base_env(deploy.policy)
          IN  /\ DOMAIN env = DOMAIN policy_env \cup DOMAIN CallEnv
              /\ \A k \in DOMAIN CallEnv : env[k] = CallEnv[k]
              /\ \A k \in DOMAIN policy_env \ DOMAIN CallEnv : env[k] = policy_env[k]
              /\ c.args.kwargs = build_docker_run_kwargs(deploy.policy)
              /\ \A d \in containers' :
                    /\ d.args.kwargs = c.args.kwargs
                    /\ DOMAIN d.args.environment = DOMAIN env => d.args.environment = env
              /\ deploy' = deploy]_vars

\* A container started by run_agent and one started by start_agent_container,
\* both with an extra_env that overrides B of the policy's env, keeps A and adds C.
C23_Witness ==
    /\ "env" \in DOMAIN deploy.policy
    /\ rpc = "wait" /\ Exists(rcid)
    /\ ById(rcid).labels = NoLabels
    /\ \E c \in containers :
          /\ c.labels = container_labels("m1", "a1", "o1")
          /\ c.args = ById(rcid).args
          /\ c.args.environment["A"] = "policy"
          /\ c.args.environment["B"] = "caller"
          /\ c.args.environment["C"] = "caller"

\* run_agent found its container exited when it waited.
CompletedRun == "exited" \in rhist

\* The steps of a completed run but for its logs: the wait ends with the status
\* the container exited with and timeout = False, and the result returned holds
\* that status, an integer, the flag and the logs read.
CompletedRunStatus ==
    /\ (rpc = "wait" /\ rpc' = "logs")
         => /\ Exists(rcid) /\ ~ Running(rcid)
            /\ rexit' = <<ById(rcid).exit_code>>
            /\ ById(rcid).exit_code \in ExitCodes
            /\ rflag' = FALSE /\ ~ rflag
    /\ (rpc = "remove" /\ rpc' = "done")
         => /\ rres'.exit_code \in Int
            /\ rres'.exit_code = rexit[1]
            /\ rres'.timeout = rflag
            /\ rres'.logs = rlogs
            /\ CompletedRun => (~ rres'.timeout /\ rres'.exit_code \in ExitCodes)

-----------------------------------------------------------------------------
(* The order of the steps of build_from_zip. *)

\* What has happened when the engine is invoked: the Dockerfile exists, every
\* entry of the archive passed the check of _safe_extract_zip and lies in the build
\* context, and the entry file is the one agent file at its top level.
ReadyForEngine ==
    LET r == safe_extract_zip(bargs.zip_bytes, dst)
    IN  /\ deploy.dockerfile
        /\ btmp \in tmpdirs
        /\ r.error = None
        /\ DOMAIN r.tree \subseteq DOMAIN bctx
        /\ AgentFiles(bctx) = {bentry}

\* C25: the engine is invoked only from the engine step of a build, with the
\* Dockerfile found, the archive checked and extracted and one entry file
\* resolved; a missing Dockerfile ends the call with BuildError and without a
\* build directory or an extracted entry; a call that ends in its extraction or
\* its entry resolution has not invoked the engine and leaves images and tags as
\* they were.
C25_BuildStepOrdering ==
    [][/\ engineCalls' > engineCalls => (bpc = "engine" /\ ReadyForEngine)
       /\ (images' # images \/ tags' # tags) /\ bpc # "idle" /\ bpc # "done"
            => engineCalls' > engineCalls
       /\ (bpc = "dockerfile" /\ ~ deploy.dockerfile)
            => /\ bpc' = "done" /\ bres'.error = "BuildError"
               /\ tmpdirs' = {} /\ disk' = {} /\ btmp' = <<>> /\ engineCalls' = 0
       /\ (bpc \in {"extract", "entry"} /\ bpc' = "done")
            => /\ bres'.error # None
               /\ engineCalls' = 0
               /\ images' = images /\ tags' = tags /\ builds' = builds]_vars

\* A build whose steps all succeeded: the engine was invoked once and made the
\* image.
C25_Witness ==
    /\ bpc = "done" /\ bres.error = None
    /\ engineCalls = 1
    /\ deploy.dockerfile
    /\ Len(builds) = 1 /\ builds[1].image_id = bres.image_id
    /\ bentry = my_agent_py

-----------------------------------------------------------------------------
\* C26: when two build_from_zip calls with the same archive run at a time and the
\* engine already holds the tag from the one that finished first, the other call
\* ends successfully too and returns the same tag.
C26_ConcurrentIdenticalBuilds ==
    [][(/\ peer.pc = "engine" /\ peer'.pc = "done"
        /\ bpc = "done" /\ bres.error = None
        /\ bargs.zip_bytes = peer.args.zip_bytes
        /\ bres.tag \in DOMAIN tags)
          => (peer'.res.error = None /\ peer'.res.tag = bres.tag)]_vars

-----------------------------------------------------------------------------
\* The container of the pre-state with id i, as it is after the step.
After(i) == CHOOSE d \in containers' : d.id = i

\* C27: start_agent_container returns with its container running; a match
\* container keeps its id, name, image and labels through every list, log, stats
\* and stop call, and an exited one stays exited; a listing whose filters it
\* matches returns it exactly if it runs or include_exited is set; it leaves the
\* engine only in a delete_agent_container call for it that succeeds.
C27_DetachedLifetime ==
    [][/\ \A c \in StartedNow :
             /\ c.status = "running"
             /\ sres'.error = None /\ sres'.conatiner_id = c.id
       /\ \A c \in Managed :
             IF \E d \in containers' : d.id = c.id
             THEN /\ After(c.id).name = c.name /\ After(c.id).image = c.image
                  /\ After(c.id).labels = c.labels
                  /\ c.status = "exited" => After(c.id) = c
                  /\ After(c.id) # c =>
                        \/ mop' = mop /\ sres' = sres /\ After(c.id).status = "exited"
                        \/ /\ mop'.op = "stop_agent_container"
                           /\ mop'.container_id = c.id /\ mop'.error = None
                           /\ After(c.id) = Killed(c)
             ELSE /\ mop'.op = "delete_agent_container"
                  /\ mop'.container_id = c.id /\ mop'.error = None
       /\ (mop' # mop /\ mop'.op = "list_agent_containers") =>
             \A c \in Managed :
                 (\A k \in DOMAIN label_filters(mop'.match_id, mop'.owner_id, mop'.agent_id) :
                     Get(c.labels, k) = label_filters(mop'.match_id, mop'.owner_id,
                                                      mop'.agent_id)[k])
                   => (c.id \in mop'.result <=> (mop'.include_exited \/ c.status = "running"))
      ]_vars

\* A container that was started and then stopped is in a listing that includes
\* the exited ones.
C27_Witness ==
    /\ mop.op = "list_agent_containers" /\ mop.include_exited
    /\ \E c \in Managed :
          /\ c.status = "exited" /\ c.exit_code = 137
          /\ c.id \in mop.result

-----------------------------------------------------------------------------
\* C28: a result of run_agent has timeout = True or exit code 124 only if the
\* container was still running when the time limit of the wait elapsed.
C28_TimeoutFlagSound ==
    (rpc = "done" /\ rres.error = None
        /\ (rres.timeout = TRUE \/ rres.exit_code = TimeoutExitCode))
      => "limit" \in rhist

-----------------------------------------------------------------------------
\* A step in which a start_agent_container call returns.
StartReturns == sres' # sres /\ sres'.error # "unset"

\* C29: no two containers have the same name; a start_agent_container call whose
\* default name is the name of a container that exists raises RunError and
\* leaves the containers as they are, with the message 'Failed to start
\* container' when the image reference resolves; a call that succeeds has found
\* its name free and its container runs under that name.
C29_DefaultNameExclusive ==
    [][/\ \A c, d \in containers' : c.name = d.name => c.id = d.id
       /\ StartReturns =>
             LET name == default_name(sres'.call.match_id, sres'.call.agent_id)
             IN  IF \E c \in containers : c.name = name
                 THEN /\ sres'.error = "RunError"
                      /\ containers' = containers /\ nextCid' = nextCid
                      /\ ResolveRef(images, tags, sres'.call.image_ref) # 0
                            => sres'.msg = "Failed to start container"
                 ELSE sres'.error = None =>
                        \E c \in containers' :
                            /\ c.id = sres'.conatiner_id /\ c.name = name
                            /\ c.status = "running" /\ c.id \notin { d.id : d \in containers }
      ]_vars

\* A second start for a match and agent whose first container was stopped but
\* not deleted has been refused.
C29_Witness ==
    /\ sres.error = "RunError" /\ sres.msg = "Failed to start container"
    /\ \E c \in containers :
          /\ c.name = default_name(sres.call.match_id, sres.call.agent_id)
          /\ c.status = "exited" /\ c.exit_code = 137

-----------------------------------------------------------------------------
\* C30: when the worker is between jobs, no submission is left in 'building'; a
\* failed submission has no image id and no image tag, and a completed one has
\* the image id and tag of a build.
C30_BuildJobStatus ==
    worker.pc = "idle" =>
        \A sid \in DOMAIN worker.subs :
            LET sub == worker.subs[sid]
            IN  /\ sub.status \in SubmissionStatus \ {"building"}
                /\ sub.status = "failed" => (sub.image_id = <<>> /\ sub.image_tag = <<>>)
                /\ sub.status = "completed" =>
                      \E b \in Range(builds) :
                          sub.image_id = <<b.image_id>> /\ sub.image_tag = <<b.tag>>

====
